---- MODULE Spec2Model ----
(***************************************************************************)
(* Colour engine of Color-Detection-Using-python: the pure conversion and  *)
(* metric functions of src/core/color_converter.py (specification Spec),   *)
(* the named-colour index of src/core/color_matcher.py (MatcherSpec) and   *)
(* the image sampler of src/core/color_detector.py (DetectorSpec, and      *)
(* ExtractSpec for the dominant colours), get_color_matcher called from    *)
(* several threads (SingletonSpec), and the camera loop and the colour     *)
(* history of src/ui/app.py (CameraSpec, HistorySpec).                     *)
(*                                                                         *)
(* A call is modelled as one step: the initial state holds the argument    *)
(* the caller supplies, the action of a function stores its return value   *)
(* in `out` and its name in `fn`.                                          *)
(*                                                                         *)
(* Strings are sequences of one-character strings.  Python floats are      *)
(* modelled by the exact rational value num/den of the expression; int()   *)
(* of a float is the operator IntOf below.                                 *)
(***************************************************************************)
EXTENDS Integers, Sequences, FiniteSets, TLC

VARIABLES
    given,            \* which argument the caller supplied: "rgb", "hex_color", "contrast_ratio"
    rgb,              \* the (r, g, b) argument
    hex_color,        \* the hex_color argument of hex_to_rgb
    contrast_ratio,   \* the contrast_ratio argument of get_wcag_rating, in hundredths
    blindness_type,   \* the blindness_type argument of simulate_color_blindness
    fn,               \* the function that was called last, "none" before the first call
    via,              \* the argument of that call when it is an earlier call's result
    out,              \* what the call returned
    raised,           \* the exception the last call let escape, "none" if it returned
    colors_file,      \* what ColorMatcher finds at the path of its colour database
    colors,           \* ColorMatcher.colors
    color_names,      \* ColorMatcher.color_names
    color_hex,        \* ColorMatcher.color_hex
    tree,             \* ColorMatcher.color_array and ColorMatcher.tree
    name,             \* the name argument of search_by_name
    count,            \* the count argument of find_multiple_matches
    current_image,    \* ColorDetector.current_image
    original_image,   \* ColorDetector.original_image
    point,            \* the (x, y) argument of the ColorDetector queries
    radius,           \* the radius argument of get_average_color_in_region
    n_colors,         \* the n_colors argument of extract_dominant_colors
    sample_size,      \* the sample_size argument of extract_dominant_colors
    kmeans,           \* the KMeans estimator of the last extract_dominant_colors call
    matcher_instance, \* the global _matcher_instance of color_matcher.py
    constructed,      \* how many ColorMatcher objects get_color_matcher has constructed
    pc,               \* where each thread is in get_color_matcher
    got,              \* what get_color_matcher returned to each thread last
    camera_running,   \* ColorDetectionApp.camera_running
    camera,           \* whether ColorDetectionApp.camera holds a CameraCapture
    session,          \* how many times the camera has been started
    pending,          \* the _update_camera_frame callbacks root.after has pending, oldest first
    updating,         \* the _update_camera_frame calls waiting inside canvas.update(), innermost last
    color_history,    \* ColorDetectionApp.color_history
    current_color     \* ColorDetectionApp.current_color, <<>> while the attribute is not set

\* the state of the ColorMatcher and of the ColorDetector with their arguments
matcher_vars == <<raised, colors_file, colors, color_names, color_hex, tree, name, count>>
detector_vars == <<current_image, original_image, point, radius, n_colors, sample_size, kmeans>>

singleton_vars == <<matcher_instance, constructed, pc, got>>
camera_vars == <<camera_running, camera, session, pending, updating>>
history_vars == <<color_history, current_color>>
app_vars == <<singleton_vars, camera_vars, history_vars>>

vars == <<given, rgb, hex_color, contrast_ratio, blindness_type, fn, via, out,
          matcher_vars, detector_vars, app_vars>>

(***************************************************************************)
(* Bounds of the model.                                                    *)
(***************************************************************************)
\* channel values are sampled every ChannelStep, plus ExtraLevels
ChannelStep == 24
\* hex_color arguments over HexAlphabet have at most MaxHexLen characters
MaxHexLen == 7
\* contrast ratios range over 0.00 .. MaxRatio.00 in steps of 0.01
MaxRatio == 8

Min(a, b) == IF a <= b THEN a ELSE b
Max(a, b) == IF a >= b THEN a ELSE b
Min3(a, b, c) == Min(a, Min(b, c))
Max3(a, b, c) == Max(a, Max(b, c))
Abs(a) == IF a < 0 THEN -a ELSE a

(***************************************************************************)
(* Characters.                                                             *)
(***************************************************************************)
LowerHex == <<"0","1","2","3","4","5","6","7","8","9","a","b","c","d","e","f">>
UpperHex == <<"0","1","2","3","4","5","6","7","8","9","A","B","C","D","E","F">>
HexDigits == {LowerHex[i] : i \in 1..16} \cup {UpperHex[i] : i \in 1..16}
UpperHexDigits == {UpperHex[i] : i \in 1..16}
Whitespace == {" "}
Signs == {"+", "-"}

\* value of one hexadecimal digit, either case
HexVal(c) == CHOOSE v \in 0..15 : LowerHex[v + 1] = c \/ UpperHex[v + 1] = c

\* str.upper() on one character of a formatted colour code
Upper(c) ==
    IF \E i \in 1..16 : LowerHex[i] = c
    THEN UpperHex[CHOOSE i \in 1..16 : LowerHex[i] = c]
    ELSE c

\* mutant of Format02x: format spec 2x, padded with a space instead of a zero
Format02x_SpacePadded(n) ==
    <<IF n < 16 THEN " " ELSE LowerHex[(n \div 16) + 1], LowerHex[(n % 16) + 1]>>

\* format spec 02x of a channel in 0..255: two lowercase digits, zero padded
Format02x(n) == <<LowerHex[(n \div 16) + 1], LowerHex[(n % 16) + 1]>>

\* Python slice s[i:j] (0-based, end clipped to the length)
Slice(s, i, j) ==
    IF i >= Min(j, Len(s)) THEN <<>> ELSE SubSeq(s, i + 1, Min(j, Len(s)))

\* str.lstrip('#'): every leading '#' is removed
RECURSIVE LStripHash(_)
LStripHash(s) ==
    IF s # <<>> /\ Head(s) = "#" THEN LStripHash(Tail(s)) ELSE s

\* int(s, 16) of a slice of at most two characters: surrounding whitespace is
\* stripped, one sign is accepted before the digits, anything else raises
ParseInt16(s) ==
    LET bad == [ok |-> FALSE, val |-> 0]
        good(v) == [ok |-> TRUE, val |-> v]
    IN  CASE Len(s) = 1 /\ s[1] \in HexDigits -> good(HexVal(s[1]))
          [] Len(s) = 2 /\ s[1] \in HexDigits /\ s[2] \in HexDigits ->
                good(16 * HexVal(s[1]) + HexVal(s[2]))
          [] Len(s) = 2 /\ s[1] = "+" /\ s[2] \in HexDigits -> good(HexVal(s[2]))
          [] Len(s) = 2 /\ s[1] = "-" /\ s[2] \in HexDigits -> good(0 - HexVal(s[2]))
          [] Len(s) = 2 /\ s[1] \in Whitespace /\ s[2] \in HexDigits -> good(HexVal(s[2]))
          [] Len(s) = 2 /\ s[1] \in HexDigits /\ s[2] \in Whitespace -> good(HexVal(s[1]))
          [] OTHER -> bad

(***************************************************************************)
(* rgb_to_hex / hex_to_rgb                                                 *)
(***************************************************************************)
rgb_to_hex(r, g, b) ==
    LET s == <<"#">> \o Format02x(r) \o Format02x(g) \o Format02x(b)
    IN  [i \in 1..Len(s) |-> Upper(s[i])]

\* mutant of ExpandShort: hex_color * 2, the whole string repeated
ExpandShort_Repeated(s) == <<s[1], s[2], s[3], s[1], s[2], s[3]>>

\* ''.join([c * 2 for c in hex_color]) of a three-character string
ExpandShort(s) == <<s[1], s[1], s[2], s[2], s[3], s[3]>>

\* the result is [raised, value]: raised = "ValueError" when int() rejects a slice
hex_to_rgb(h) ==
    LET s0 == LStripHash(h)
        s  == IF Len(s0) = 3 THEN ExpandShort(s0) ELSE s0
        p1 == ParseInt16(Slice(s, 0, 2))
        p2 == ParseInt16(Slice(s, 2, 4))
        p3 == ParseInt16(Slice(s, 4, 6))
    IN  IF p1.ok /\ p2.ok /\ p3.ok
        THEN [raised |-> "none", value |-> <<p1.val, p2.val, p3.val>>]
        ELSE [raised |-> "ValueError", value |-> <<>>]

(***************************************************************************)
(* Floating point.  Every float of the converter is the correctly rounded  *)
(* value of a rational num/den.  int() truncates: when num/den is not an   *)
(* integer the rounding error (below 1e-12) cannot change the result;      *)
(* when num/den is a positive integer n and some operand was rounded, the  *)
(* float is n or lies just beside it, and int() gives n or n - 1.  `exact` *)
(* says that all operands are binary fractions, which IEEE arithmetic      *)
(* computes without error.                                                 *)
(***************************************************************************)
IntOf(num, den, exact) ==
    IF num % den = 0 /\ num > 0 /\ ~exact
    THEN {(num \div den) - 1, num \div den}
    ELSE {num \div den}

\* p / 100 is a binary fraction
PctDyadic(p) == p % 25 = 0
\* c / 255 is a binary fraction
ChannelDyadic(c) == c \in {0, 255}
\* h / 360 is a binary fraction
HueDyadic(h) == h % 45 = 0

\* mutant of HueNum: the final % 1.0 is left out
HueNum_NoWrap(r, g, b) ==
    LET maxc == Max3(r, g, b)
        rangec == maxc - Min3(r, g, b)
    IN  IF r = maxc THEN 60 * (g - b)
        ELSE IF g = maxc THEN 120 * rangec + 60 * (b - r)
        ELSE 240 * rangec + 60 * (r - g)

\* mutant of HueNum: gc-bc instead of bc-gc in the red sector
HueNum_RedSwapped(r, g, b) ==
    LET maxc == Max3(r, g, b)
        rangec == maxc - Min3(r, g, b)
        h == IF r = maxc THEN 60 * (b - g)
             ELSE IF g = maxc THEN 120 * rangec + 60 * (b - r)
             ELSE 240 * rangec + 60 * (r - g)
    IN  h % (360 * rangec)

(***************************************************************************)
(* colorsys.rgb_to_hsv / rgb_to_hls hue, in degrees times rangec:          *)
(* h = bc-gc, 2+rc-bc or 4+gc-rc, then (h/6.0) % 1.0                       *)
(***************************************************************************)
HueNum(r, g, b) ==
    LET maxc == Max3(r, g, b)
        rangec == maxc - Min3(r, g, b)
        h == IF r = maxc THEN 60 * (g - b)
             ELSE IF g = maxc THEN 120 * rangec + 60 * (b - r)
             ELSE 240 * rangec + 60 * (r - g)
    IN  h % (360 * rangec)

\* the possible results (int(h * 360), int(s * 100), int(v * 100))
rgb_to_hsv(r, g, b) ==
    LET maxc == Max3(r, g, b)
        minc == Min3(r, g, b)
        rangec == maxc - minc
        V == IntOf(100 * maxc, 255, ChannelDyadic(maxc))
    IN  IF minc = maxc
        THEN {<<0, 0, v>> : v \in V}
        ELSE {<<h, s, v>> : h \in IntOf(HueNum(r, g, b), rangec, FALSE),
                            s \in IntOf(100 * rangec, maxc, minc = 0),
                            v \in V}

\* colorsys.hsv_to_rgb: i = int(h*6.0), f = h*6.0 - i, as <<i, 60 * f>>.  At a
\* multiple of 60 degrees that is no binary fraction of the circle h*6.0 may
\* round to either side of the integer.
Sectors(h) ==
    IF h % 60 = 0 /\ ~HueDyadic(h)
    THEN {<<h \div 60, 0>>, <<(h \div 60) - 1, 60>>}
    ELSE {<<h \div 60, h % 60>>}

\* the possible results (int(r * 255), int(g * 255), int(b * 255))
hsv_to_rgb(h, s, v) ==
    LET dyadic == PctDyadic(s) /\ PctDyadic(v)
        vs == IntOf(255 * v, 100, PctDyadic(v))
        ps == IntOf(255 * v * (100 - s), 10000, dyadic)
        qs(f) == IntOf(255 * v * (6000 - s * f), 600000, dyadic /\ HueDyadic(h))
        ts(f) == IntOf(255 * v * (6000 - s * (60 - f)), 600000, dyadic /\ HueDyadic(h))
        sector(i, f) ==
            CASE i = 0 -> {<<x, t, p>> : x \in vs, t \in ts(f), p \in ps}
              [] i = 1 -> {<<q, x, p>> : q \in qs(f), x \in vs, p \in ps}
              [] i = 2 -> {<<p, x, t>> : p \in ps, x \in vs, t \in ts(f)}
              [] i = 3 -> {<<p, q, x>> : p \in ps, q \in qs(f), x \in vs}
              [] i = 4 -> {<<t, p, x>> : t \in ts(f), p \in ps, x \in vs}
              [] i = 5 -> {<<x, p, q>> : x \in vs, p \in ps, q \in qs(f)}
    IN  IF s = 0
        THEN {<<x, x, x>> : x \in vs}
        ELSE UNION {sector(sec[1] % 6, sec[2]) : sec \in Sectors(h)}

\* the possible results (int(h * 360), int(s * 100), int(l * 100))
rgb_to_hsl(r, g, b) ==
    LET maxc == Max3(r, g, b)
        minc == Min3(r, g, b)
        sumc == maxc + minc
        rangec == maxc - minc
        L == IntOf(100 * sumc, 510, ChannelDyadic(maxc) /\ ChannelDyadic(minc))
        sden == IF sumc <= 255 THEN sumc ELSE 510 - maxc - minc
    IN  IF minc = maxc
        THEN {<<0, 0, l>> : l \in L}
        ELSE {<<h, s, l>> : h \in IntOf(HueNum(r, g, b), rangec, FALSE),
                            s \in IntOf(100 * rangec, sden, minc = 0 \/ maxc = 255),
                            l \in L}

\* colorsys.hls_to_rgb with the code's argument order (h, s, l)
hsl_to_rgb(h, s, l) ==
    LET dyadic == PctDyadic(s) /\ PctDyadic(l)
        m2 == IF l <= 50 THEN l * (100 + s) ELSE 100 * l + 100 * s - l * s
        m1 == 200 * l - m2
        \* colorsys._v(m1, m2, hue) * 255 for hue = d degrees
        v(d) ==
            CASE d < 60  -> IntOf(255 * (60 * m1 + (m2 - m1) * d), 600000, FALSE)
              [] d < 180 -> IntOf(255 * m2, 10000, dyadic /\ d > 60)
              [] d < 240 -> IntOf(255 * (60 * m1 + (m2 - m1) * (240 - d)), 600000, FALSE)
              [] OTHER   -> IntOf(255 * m1, 10000, dyadic /\ d > 240)
    IN  IF s = 0
        THEN {<<x, x, x>> : x \in IntOf(255 * l, 100, PctDyadic(l))}
        ELSE {<<x, y, z>> : x \in v((h + 120) % 360), y \in v(h), z \in v((h + 240) % 360)}

\* mutant of rgb_to_cmyk: c, m, y are not rescaled by (x - k) / (1 - k)
rgb_to_cmyk_NotRescaled(r, g, b) ==
    LET maxc == Max3(r, g, b)
        ink(x) == IntOf(100 * (255 - x), 255, ChannelDyadic(x))
    IN  IF r = 0 /\ g = 0 /\ b = 0
        THEN {<<0, 0, 0, 100>>}
        ELSE {<<c, m, y, k>> : c \in ink(r), m \in ink(g), y \in ink(b),
                               k \in IntOf(100 * (255 - maxc), 255, ChannelDyadic(maxc))}

\* the possible results (int(c * 100), int(m * 100), int(y * 100), int(k * 100))
rgb_to_cmyk(r, g, b) ==
    LET maxc == Max3(r, g, b)
        \* (c - k) / (1 - k) for c = 1 - x/255, k = 1 - maxc/255
        ink(x) == IntOf(100 * (maxc - x), maxc, x = 0)
    IN  IF r = 0 /\ g = 0 /\ b = 0
        THEN {<<0, 0, 0, 100>>}
        ELSE IF maxc = 0
        THEN {<<0, 0, 0, 100>>}
        ELSE {<<c, m, y, k>> : c \in ink(r), m \in ink(g), y \in ink(b),
                               k \in IntOf(100 * (255 - maxc), 255, ChannelDyadic(maxc))}

\* the possible results (int(r), int(g), int(b))
cmyk_to_rgb(c, m, y, k) ==
    LET ch(x) == IntOf(255 * (100 - x) * (100 - k), 10000, PctDyadic(x) /\ PctDyadic(k))
    IN  {<<r, g, b>> : r \in ch(c), g \in ch(m), b \in ch(y)}

(***************************************************************************)
(* Colour harmonies: hue rotations in HSV space.                           *)
(***************************************************************************)
\* colors.append(hsv_to_rgb((h + offset) % 360, s, v)) for the two offsets
\* mutant of RotateHue: hsv_to_rgb(new_h, v, s), the two percentages exchanged
RotateHue_ValueFirst(hsv, offsets) ==
    {<<c1, c2>> : c1 \in hsv_to_rgb((hsv[1] + offsets[1]) % 360, hsv[3], hsv[2]),
                  c2 \in hsv_to_rgb((hsv[1] + offsets[2]) % 360, hsv[3], hsv[2])}

RotateHue(hsv, offsets) ==
    {<<c1, c2>> : c1 \in hsv_to_rgb((hsv[1] + offsets[1]) % 360, hsv[2], hsv[3]),
                  c2 \in hsv_to_rgb((hsv[1] + offsets[2]) % 360, hsv[2], hsv[3])}

\* mutant of AnalogousOffsets: the two offsets in the other order
AnalogousOffsets_Swapped == <<30, -30>>

TriadicOffsets == <<120, 240>>
AnalogousOffsets == <<-30, 30>>
SplitOffsets == <<150, 210>>

get_triadic_colors(r, g, b) ==
    UNION {RotateHue(hsv, TriadicOffsets) : hsv \in rgb_to_hsv(r, g, b)}

get_analogous_colors(r, g, b) ==
    UNION {RotateHue(hsv, AnalogousOffsets) : hsv \in rgb_to_hsv(r, g, b)}

get_split_complementary(r, g, b) ==
    UNION {RotateHue(hsv, SplitOffsets) : hsv \in rgb_to_hsv(r, g, b)}

(***************************************************************************)
(* WCAG rating; the ratio is given in hundredths.                          *)
(***************************************************************************)
\* mutant of get_wcag_rating: the thresholds compared with > instead of >=
get_wcag_rating_Exclusive(ratio) ==
    IF ratio > 700 THEN "AAA (Excellent)"
    ELSE IF ratio > 450 THEN "AA (Good)"
    ELSE IF ratio > 300 THEN "AA Large (Acceptable)"
    ELSE "Fail (Poor)"

get_wcag_rating(ratio) ==
    IF ratio >= 700 THEN "AAA (Excellent)"
    ELSE IF ratio >= 450 THEN "AA (Good)"
    ELSE IF ratio >= 300 THEN "AA Large (Acceptable)"
    ELSE "Fail (Poor)"

(***************************************************************************)
(* Colour blindness simulation; matrix entries in thousandths.             *)
(***************************************************************************)
COLOR_BLINDNESS_MATRICES ==
    [protanopia    |-> <<<<567, 433, 0>>, <<558, 442, 0>>, <<0, 242, 758>>>>,
     deuteranopia  |-> <<<<625, 375, 0>>, <<700, 300, 0>>, <<0, 300, 700>>>>,
     tritanopia    |-> <<<<950, 50, 0>>, <<0, 433, 567>>, <<0, 475, 525>>>>,
     achromatopsia |-> <<<<299, 587, 114>>, <<299, 587, 114>>, <<299, 587, 114>>>>]

\* min(255, max(0, x)) of x = n / 1000
Clamp(n) == Min(255 * 1000, Max(0, n))

\* matrix[i][0] * r + matrix[i][1] * g + matrix[i][2] * b, in thousandths
Dot(row, r, g, b) == row[1] * r + row[2] * g + row[3] * b

\* mutant of simulate_color_blindness: the matrix is applied column-wise
\* (matrix[0][i] * r + matrix[1][i] * g + matrix[2][i] * b) and not clamped
simulate_color_blindness_Transposed(r, g, b, t) ==
    IF t \notin DOMAIN COLOR_BLINDNESS_MATRICES
    THEN {<<r, g, b>>}
    ELSE LET matrix == COLOR_BLINDNESS_MATRICES[t]
             ch(i) == IntOf(Dot(<<matrix[1][i], matrix[2][i], matrix[3][i]>>, r, g, b),
                            1000, FALSE)
         IN  {<<x, y, z>> : x \in ch(1), y \in ch(2), z \in ch(3)}

\* mutant of simulate_color_blindness: an unknown type falls back to the
\* achromatopsia matrix instead of returning the input
simulate_color_blindness_DefaultMatrix(r, g, b, t) ==
    LET matrix == IF t \in DOMAIN COLOR_BLINDNESS_MATRICES
                  THEN COLOR_BLINDNESS_MATRICES[t]
                  ELSE COLOR_BLINDNESS_MATRICES["achromatopsia"]
        ch(i) == IntOf(Clamp(Dot(matrix[i], r, g, b)), 1000, FALSE)
    IN  {<<x, y, z>> : x \in ch(1), y \in ch(2), z \in ch(3)}

\* the possible results (new_r, new_g, new_b)
simulate_color_blindness(r, g, b, t) ==
    IF t \notin DOMAIN COLOR_BLINDNESS_MATRICES
    THEN {<<r, g, b>>}
    ELSE LET matrix == COLOR_BLINDNESS_MATRICES[t]
             ch(i) == IntOf(Clamp(Dot(matrix[i], r, g, b)), 1000, FALSE)
         IN  {<<x, y, z>> : x \in ch(1), y \in ch(2), z \in ch(3)}

(***************************************************************************)
(* Arguments.                                                              *)
(***************************************************************************)
ExtraLevels == {1, 42, 127, 128, 165, 254, 255}
Levels == {c \in 0..255 : c % ChannelStep = 0} \cup ExtraLevels
RGBInputs == Levels \X Levels \X Levels

HexAlphabet == {"#", "b", "F", "-"}
\* every string over HexAlphabet up to MaxHexLen characters
AlphabetStrings == UNION {[1..n -> HexAlphabet] : n \in 0..MaxHexLen}
\* every three-digit shorthand, with and without the leading '#'
ShortForms ==
    LET digits == {<<x, y, z>> : x \in HexDigits, y \in HexDigits, z \in HexDigits}
    IN  digits \cup {<<"#">> \o d : d \in digits}
\* a slice int() accepts or rejects for its sign, whitespace or length
OddForms == {<<"+", "F", "+", "F", "+", "F">>, <<" ", "b", " ", "b", " ", "b">>,
             <<"F", " ", "F", " ", "F", " ">>, <<"+", "+", "+">>, <<" ", " ", " ">>}
HexInputs == AlphabetStrings \cup ShortForms \cup OddForms

RatioInputs == 0..(MaxRatio * 100)

BlindnessTypes == {"protanopia", "deuteranopia", "tritanopia", "achromatopsia",
                   "monochromacy", "Protanopia", ""}

NoRgb == <<0, 0, 0>>
NoHex == <<>>
NoValue == <<>>

\* no ColorMatcher and no ColorDetector has been constructed
NoTree == [built |-> FALSE]
NoImage == <<>>
NoKMeans == [raised |-> "none", fitted |-> FALSE]
NoMatcher ==
    /\ raised = "none"
    /\ colors_file = [kind |-> "none"]
    /\ colors = <<>>
    /\ color_names = <<>>
    /\ color_hex = <<>>
    /\ tree = NoTree
    /\ name = <<>>
    /\ count = 0
NoDetector ==
    /\ current_image = NoImage
    /\ original_image = NoImage
    /\ point = <<0, 0>>
    /\ radius = 0
    /\ n_colors = 0
    /\ sample_size = 0
    /\ kmeans = NoKMeans

\* get_color_matcher has not been called
NoSingleton ==
    /\ matcher_instance = 0
    /\ constructed = 0
    /\ pc = <<>>
    /\ got = <<>>
\* ColorDetectionApp.__init__: no camera, no callback
NoCamera ==
    /\ camera_running = FALSE
    /\ camera = FALSE
    /\ session = 0
    /\ pending = <<>>
    /\ updating = <<>>
\* ColorDetectionApp.__init__ without a saved history
NoHistory ==
    /\ color_history = <<>>
    /\ current_color = <<>>
NoApp == NoSingleton /\ NoCamera /\ NoHistory

Init ==
    /\ fn = "none"
    /\ via = NoValue
    /\ out = NoValue
    /\ blindness_type = "none"
    /\ NoMatcher
    /\ NoDetector
    /\ NoApp
    /\ \/ given = "rgb" /\ rgb \in RGBInputs /\ hex_color = NoHex /\ contrast_ratio = 0
       \/ given = "hex_color" /\ rgb = NoRgb /\ hex_color \in HexInputs /\ contrast_ratio = 0
       \/ given = "contrast_ratio" /\ rgb = NoRgb /\ hex_color = NoHex
             /\ contrast_ratio \in RatioInputs

(***************************************************************************)
(* Calls.                                                                  *)
(***************************************************************************)
Args == <<given, rgb, hex_color, contrast_ratio>>

\* a call of f on the caller's (r, g, b) that returns one of `results`
CallRgb(f, results) ==
    /\ fn = "none"
    /\ given = "rgb"
    /\ fn' = f
    /\ out' \in results
    /\ UNCHANGED <<Args, app_vars, matcher_vars, detector_vars, blindness_type, via>>

\* a call of f on the value the last call returned, when that call was g
CallBack(g, f, results) ==
    /\ fn = g
    /\ given = "rgb"
    /\ fn' = f
    /\ via' = out
    /\ out' \in results
    /\ UNCHANGED <<Args, app_vars, matcher_vars, detector_vars, blindness_type>>

RgbToHex == CallRgb("rgb_to_hex", {rgb_to_hex(rgb[1], rgb[2], rgb[3])})

HexToRgb ==
    \/ /\ fn = "none"
       /\ given = "hex_color"
       /\ fn' = "hex_to_rgb"
       /\ out' = hex_to_rgb(hex_color)
       /\ UNCHANGED <<Args, app_vars, matcher_vars, detector_vars, blindness_type, via>>
    \/ CallBack("rgb_to_hex", "hex_to_rgb", {hex_to_rgb(out)})

RgbToHsv == CallRgb("rgb_to_hsv", rgb_to_hsv(rgb[1], rgb[2], rgb[3]))
HsvToRgb == CallBack("rgb_to_hsv", "hsv_to_rgb", hsv_to_rgb(out[1], out[2], out[3]))
RgbToHsl == CallRgb("rgb_to_hsl", rgb_to_hsl(rgb[1], rgb[2], rgb[3]))
HslToRgb == CallBack("rgb_to_hsl", "hsl_to_rgb", hsl_to_rgb(out[1], out[2], out[3]))
RgbToCmyk == CallRgb("rgb_to_cmyk", rgb_to_cmyk(rgb[1], rgb[2], rgb[3]))
CmykToRgb == CallBack("rgb_to_cmyk", "cmyk_to_rgb", cmyk_to_rgb(out[1], out[2], out[3], out[4]))

GetTriadicColors ==
    CallRgb("get_triadic_colors", get_triadic_colors(rgb[1], rgb[2], rgb[3]))
GetAnalogousColors ==
    CallRgb("get_analogous_colors", get_analogous_colors(rgb[1], rgb[2], rgb[3]))
GetSplitComplementary ==
    CallRgb("get_split_complementary", get_split_complementary(rgb[1], rgb[2], rgb[3]))

\* rgb_to_hsv called on one of the colours a harmony function returned
HarmonyToHsv ==
    /\ fn \in {"get_triadic_colors", "get_analogous_colors", "get_split_complementary"}
    /\ \E i \in 1..2 : out' \in rgb_to_hsv(out[i][1], out[i][2], out[i][3])
    /\ fn' = "rgb_to_hsv(harmony)"
    /\ via' = out
    /\ UNCHANGED <<Args, app_vars, matcher_vars, detector_vars, blindness_type>>

GetWcagRating ==
    /\ fn = "none"
    /\ given = "contrast_ratio"
    /\ fn' = "get_wcag_rating"
    /\ out' = get_wcag_rating(contrast_ratio)
    /\ UNCHANGED <<Args, app_vars, matcher_vars, detector_vars, blindness_type, via>>

SimulateColorBlindness ==
    /\ fn = "none"
    /\ given = "rgb"
    /\ \E t \in BlindnessTypes :
          /\ blindness_type' = t
          /\ out' \in simulate_color_blindness(rgb[1], rgb[2], rgb[3], t)
    /\ fn' = "simulate_color_blindness"
    /\ UNCHANGED <<Args, app_vars, matcher_vars, detector_vars, via>>

Next ==
    \/ RgbToHex \/ HexToRgb
    \/ RgbToHsv \/ HsvToRgb
    \/ RgbToHsl \/ HslToRgb
    \/ RgbToCmyk \/ CmykToRgb
    \/ GetTriadicColors \/ GetAnalogousColors \/ GetSplitComplementary
    \/ HarmonyToHsv
    \/ GetWcagRating
    \/ SimulateColorBlindness

Spec == Init /\ [][Next]_vars

(***************************************************************************)
(* ColorMatcher: the colour database.  A database entry is a record with   *)
(* the keys it has; names and hex codes are sequences of characters.       *)
(***************************************************************************)
\* a database file holds at most MaxPalette entries
MaxPalette == 2

\* the list `fallback` of _use_fallback_colors
Fallback ==
    <<[name |-> <<"B", "l", "a", "c", "k">>,
       rgb |-> <<0, 0, 0>>, hex |-> <<"#", "0", "0", "0", "0", "0", "0">>],
      [name |-> <<"W", "h", "i", "t", "e">>,
       rgb |-> <<255, 255, 255>>, hex |-> <<"#", "F", "F", "F", "F", "F", "F">>],
      [name |-> <<"R", "e", "d">>,
       rgb |-> <<255, 0, 0>>, hex |-> <<"#", "F", "F", "0", "0", "0", "0">>],
      [name |-> <<"G", "r", "e", "e", "n">>,
       rgb |-> <<0, 255, 0>>, hex |-> <<"#", "0", "0", "F", "F", "0", "0">>],
      [name |-> <<"B", "l", "u", "e">>,
       rgb |-> <<0, 0, 255>>, hex |-> <<"#", "0", "0", "0", "0", "F", "F">>],
      [name |-> <<"Y", "e", "l", "l", "o", "w">>,
       rgb |-> <<255, 255, 0>>, hex |-> <<"#", "F", "F", "F", "F", "0", "0">>],
      [name |-> <<"C", "y", "a", "n">>,
       rgb |-> <<0, 255, 255>>, hex |-> <<"#", "0", "0", "F", "F", "F", "F">>],
      [name |-> <<"M", "a", "g", "e", "n", "t", "a">>,
       rgb |-> <<255, 0, 255>>, hex |-> <<"#", "F", "F", "0", "0", "F", "F">>],
      [name |-> <<"G", "r", "a", "y">>,
       rgb |-> <<128, 128, 128>>, hex |-> <<"#", "8", "0", "8", "0", "8", "0">>],
      [name |-> <<"O", "r", "a", "n", "g", "e">>,
       rgb |-> <<255, 165, 0>>, hex |-> <<"#", "F", "F", "A", "5", "0", "0">>],
      [name |-> <<"P", "u", "r", "p", "l", "e">>,
       rgb |-> <<128, 0, 128>>, hex |-> <<"#", "8", "0", "0", "0", "8", "0">>],
      [name |-> <<"P", "i", "n", "k">>,
       rgb |-> <<255, 192, 203>>, hex |-> <<"#", "F", "F", "C", "0", "C", "B">>],
      [name |-> <<"B", "r", "o", "w", "n">>,
       rgb |-> <<165, 42, 42>>, hex |-> <<"#", "A", "5", "2", "A", "2", "A">>]>>

\* self.colors, self.color_names, self.color_hex as __init__ sets them
EmptyLists == [colors |-> <<>>, color_names |-> <<>>, color_hex |-> <<>>, raised |-> "none"]

\* one iteration of the loops of _load_colors and _use_fallback_colors: the
\* three appends in turn, the first missing key raising KeyError
AppendColor(self, color) ==
    IF "rgb" \notin DOMAIN color
    THEN [self EXCEPT !.raised = "KeyError"]
    ELSE IF "name" \notin DOMAIN color
    THEN [self EXCEPT !.colors = Append(@, color.rgb), !.raised = "KeyError"]
    ELSE IF "hex" \notin DOMAIN color
    THEN [self EXCEPT !.colors = Append(@, color.rgb),
                      !.color_names = Append(@, color.name),
                      !.raised = "KeyError"]
    ELSE [self EXCEPT !.colors = Append(@, color.rgb),
                      !.color_names = Append(@, color.name),
                      !.color_hex = Append(@, color.hex)]

\* the for loop over the entries from the i-th on, left at the first exception
RECURSIVE AppendColors(_, _, _)
AppendColors(self, entries, i) ==
    IF i > Len(entries) \/ self.raised # "none"
    THEN self
    ELSE AppendColors(AppendColor(self, entries[i]), entries, i + 1)

use_fallback_colors(self) == AppendColors(self, Fallback, 1)

\* _load_colors: only FileNotFoundError is caught
load_colors(self, file) ==
    CASE file.kind = "missing" -> use_fallback_colors(self)
      [] file.kind = "unreadable" -> [self EXCEPT !.raised = "PermissionError"]
      [] file.kind = "invalid_json" -> [self EXCEPT !.raised = "JSONDecodeError"]
      [] file.kind = "ok" ->
            IF "colors" \notin DOMAIN file.data
            THEN [self EXCEPT !.raised = "KeyError"]
            ELSE AppendColors(self, file.data.colors, 1)

\* _build_tree: KDTree rejects an empty array
build_tree(palette) ==
    IF palette = <<>>
    THEN [raised |-> "ValueError", tree |-> NoTree]
    ELSE [raised |-> "none", tree |-> [built |-> TRUE, color_array |-> palette]]

(***************************************************************************)
(* ColorMatcher: the queries.  `self` is the record of the object's        *)
(* attributes; list positions count from 1.                                *)
(***************************************************************************)
\* squared Euclidean distance of two colours
Dist2(p, q) ==
    (p[1] - q[1]) * (p[1] - q[1]) + (p[2] - q[2]) * (p[2] - q[2])
        + (p[3] - q[3]) * (p[3] - q[3])

\* mutant of NextNearest: the comparison of the distances is reversed
NextNearest_Farthest(array, q, prefix) ==
    LET rest == {i \in 1..Len(array) : \A j \in 1..Len(prefix) : prefix[j] # i}
    IN  {i \in rest : \A j \in rest : Dist2(array[i], q) >= Dist2(array[j], q)}

\* the positions KDTree.query can report next after those of `prefix`: any of
\* the remaining points that is nearest to q.  Which of several equidistant
\* points the tree reports first depends on its node layout and traversal.
NextNearest(array, q, prefix) ==
    LET rest == {i \in 1..Len(array) : \A j \in 1..Len(prefix) : prefix[j] # i}
    IN  {i \in rest : \A j \in rest : Dist2(array[i], q) <= Dist2(array[j], q)}

\* KDTree.query(query, k): the possible index rows, nearest first
RECURSIVE TreeQuery(_, _, _, _)
TreeQuery(array, q, k, prefix) ==
    IF Len(prefix) = k
    THEN {prefix}
    ELSE UNION {TreeQuery(array, q, k, Append(prefix, i)) :
                   i \in NextNearest(array, q, prefix)}

\* the largest d2 whose distance sqrt(d2) still rounds to a confidence of at
\* least c tenths: sqrt(d2) <= (2001 - 2c) * 441.67 / 2000, that is
\* d2 <= ((2001 - 2c) * 44167)^2 / (4 * 10^10), computed in 32 bits
ConfidenceThreshold(c) ==
    LET A == (2001 - 2 * c) * 44167
        a == A \div 10000
        b == A % 10000
    IN  (a * a + (2 * a * b + (b * b) \div 10000) \div 10000) \div 400

\* the largest c in lo..hi with d2 <= ConfidenceThreshold(c), lo if there is none
RECURSIVE LargestConfidence(_, _, _)
LargestConfidence(d2, lo, hi) ==
    IF lo = hi
    THEN lo
    ELSE LET mid == (lo + hi + 1) \div 2
         IN  IF d2 <= ConfidenceThreshold(mid)
             THEN LargestConfidence(d2, mid, hi)
             ELSE LargestConfidence(d2, lo, mid - 1)

\* mutant of Confidence: distance / max_distance, without the 1 - ...
Confidence_Inverted(d2) == 1000 - LargestConfidence(d2, 0, 1000)

\* round(max(0, 1 - distance / 441.67) * 100, 1) in tenths, distance = sqrt(d2)
Confidence(d2) == LargestConfidence(d2, 0, 1000)

\* the dictionary built for the entry at position idx; `distance` holds d2,
\* the square of the distance reported
MatchAt(self, q, idx) ==
    [name |-> self.color_names[idx],
     hex |-> self.color_hex[idx],
     rgb |-> self.colors[idx],
     distance |-> Dist2(self.tree.color_array[idx], q),
     confidence |-> Confidence(Dist2(self.tree.color_array[idx], q))]

\* the possible results of find_closest_color(r, g, b) with the default k = 1
find_closest_color(self, r, g, b) ==
    {[name |-> self.color_names[row[1]],
      hex |-> self.color_hex[row[1]],
      rgb |-> self.colors[row[1]],
      input_rgb |-> <<r, g, b>>,
      distance |-> Dist2(self.tree.color_array[row[1]], <<r, g, b>>),
      confidence |-> Confidence(Dist2(self.tree.color_array[row[1]], <<r, g, b>>))] :
        row \in TreeQuery(self.tree.color_array, <<r, g, b>>, 1, <<>>)}

\* mutant of find_multiple_matches: k = count, not clamped to the palette size;
\* KDTree.query then fails for a larger count and nothing is returned
find_multiple_matches_Unclamped(self, r, g, b, n) ==
    IF n > Len(self.colors)
    THEN {<<>>}
    ELSE {[i \in 1..Len(row) |-> MatchAt(self, <<r, g, b>>, row[i])] :
             row \in TreeQuery(self.tree.color_array, <<r, g, b>>, n, <<>>)}

\* the possible results of find_multiple_matches(r, g, b, count)
find_multiple_matches(self, r, g, b, n) ==
    {[i \in 1..Len(row) |-> MatchAt(self, <<r, g, b>>, row[i])] :
        row \in TreeQuery(self.tree.color_array, <<r, g, b>>,
                          Min(n, Len(self.colors)), <<>>)}

Letters == <<"a","b","c","d","e","f","g","h","i","j","k","l","m",
             "n","o","p","q","r","s","t","u","v","w","x","y","z">>
Capitals == <<"A","B","C","D","E","F","G","H","I","J","K","L","M",
              "N","O","P","Q","R","S","T","U","V","W","X","Y","Z">>

\* str.lower() of a string
Lower(str) ==
    [i \in 1..Len(str) |->
        IF \E j \in 1..26 : Capitals[j] = str[i]
        THEN Letters[CHOOSE j \in 1..26 : Capitals[j] = str[i]]
        ELSE str[i]]

\* an Optional value: None is the empty set
None == {}
Some(value) == {value}

\* mutant of search_by_name: name_lower in color_name.lower(), a substring test
search_by_name_Substring(self, str) ==
    LET inside(a, b) == \E k \in 0..(Len(b) - Len(a)) : SubSeq(b, k + 1, k + Len(a)) = a
        hits == {i \in 1..Len(self.color_names) : inside(Lower(str), Lower(self.color_names[i]))}
    IN  IF hits = {}
        THEN None
        ELSE LET i == CHOOSE h \in hits : \A g \in hits : h <= g
             IN  Some([name |-> self.color_names[i], hex |-> self.color_hex[i],
                       rgb |-> self.colors[i]])

\* search_by_name(name): the first entry, in list order, whose lowered name equals
\* the lowered argument
search_by_name(self, str) ==
    LET hits == {i \in 1..Len(self.color_names) : Lower(self.color_names[i]) = Lower(str)}
    IN  IF hits = {}
        THEN None
        ELSE LET i == CHOOSE h \in hits : \A g \in hits : h <= g
             IN  Some([name |-> self.color_names[i], hex |-> self.color_hex[i],
                       rgb |-> self.colors[i]])

get_all_colors(self) ==
    [i \in 1..Len(self.colors) |->
        [name |-> self.color_names[i], hex |-> self.color_hex[i], rgb |-> self.colors[i]]]

(***************************************************************************)
(* ColorMatcher: arguments, construction and calls.                        *)
(***************************************************************************)
\* counts range over 1..MaxCount
MaxCount == 3

\* database entries: two names that differ in case only, one name that is the
\* beginning of another, two entries of the same colour
EntryRed == [name |-> <<"R", "e", "d">>, rgb |-> <<255, 0, 0>>, hex |-> <<"#", "F", "F", "0", "0", "0", "0">>]
EntryRED == [name |-> <<"R", "E", "D">>, rgb |-> <<0, 255, 0>>, hex |-> <<"#", "0", "0", "F", "F", "0", "0">>]
EntryRe == [name |-> <<"R", "e">>, rgb |-> <<0, 0, 0>>, hex |-> <<"#", "0", "0", "0", "0", "0", "0">>]
EntryBlack == [name |-> <<"B", "l", "a", "c", "k">>, rgb |-> <<0, 0, 0>>, hex |-> <<"#", "0", "0", "0", "0", "0", "0">>]
\* entries that lack a key
EntryNoName == [rgb |-> <<0, 0, 255>>, hex |-> <<"#", "0", "0", "0", "0", "F", "F">>]
EntryNoRgb == [name |-> <<"B", "l", "u", "e">>, hex |-> <<"#", "0", "0", "0", "0", "F", "F">>]
EntryNoHex == [name |-> <<"B", "l", "u", "e">>, rgb |-> <<0, 0, 255>>]
Entries == {EntryRed, EntryRED, EntryRe, EntryBlack, EntryNoName, EntryNoRgb, EntryNoHex}

\* what can be at the path of the database
ColorsFiles ==
    {[kind |-> "missing"], [kind |-> "unreadable"], [kind |-> "invalid_json"],
     [kind |-> "ok", data |-> [palette |-> <<EntryRed>>]]}
    \cup {[kind |-> "ok", data |-> [colors |-> list]] :
             list \in UNION {[1..n -> Entries] : n \in 0..MaxPalette}}

\* the corners of the colour cube, two colours between entries, and the
\* colours of the fallback entries
QueryInputs ==
    ({0, 255} \X {0, 255} \X {0, 255}) \cup {<<128, 128, 0>>, <<128, 0, 0>>}
        \cup {Fallback[i].rgb : i \in 1..Len(Fallback)}

NameInputs ==
    {<<"r", "e", "d">>, <<"R", "E", "D">>, <<"R", "e">>, <<"e", "d">>, <<"r", "e", "d", " ">>, <<>>, <<"O", "R", "A", "N", "G", "E">>}

MatcherInit ==
    /\ fn = "none"
    /\ via = NoValue
    /\ out = NoValue
    /\ blindness_type = "none"
    /\ hex_color = NoHex
    /\ contrast_ratio = 0
    /\ given = "colors_file"
    /\ rgb \in QueryInputs
    /\ colors_file \in ColorsFiles
    /\ raised = "none"
    /\ colors = <<>>
    /\ color_names = <<>>
    /\ color_hex = <<>>
    /\ tree = NoTree
    /\ name = <<>>
    /\ count = 0
    /\ NoDetector
    /\ NoApp

\* the ColorMatcher object of the current state
Self == [colors |-> colors, color_names |-> color_names, color_hex |-> color_hex, tree |-> tree]

\* ColorMatcher(colors_file): __init__ with _load_colors and _build_tree
ColorMatcherInit ==
    /\ fn = "none"
    /\ given = "colors_file"
    /\ LET loaded == load_colors(EmptyLists, colors_file)
           built == build_tree(loaded.colors)
       IN  /\ colors' = loaded.colors
           /\ color_names' = loaded.color_names
           /\ color_hex' = loaded.color_hex
           /\ IF loaded.raised # "none"
              THEN raised' = loaded.raised /\ tree' = NoTree
              ELSE raised' = built.raised /\ tree' = built.tree
    /\ fn' = "ColorMatcher"
    /\ UNCHANGED <<Args, app_vars, blindness_type, via, out, colors_file, name, count, detector_vars>>

\* a method call f(str, n) on the constructed object that returns one of
\* `results`; an argument the method does not have is left at its initial value
CallMatcher(f, str, n, results) ==
    /\ fn # "none"
    /\ given = "colors_file"
    /\ tree.built
    /\ fn' = f
    /\ name' = str
    /\ count' = n
    /\ out' \in results
    /\ UNCHANGED <<Args, app_vars, blindness_type, via, raised, colors_file, colors, color_names,
                   color_hex, tree, detector_vars>>

FindClosestColor ==
    CallMatcher("find_closest_color", <<>>, 0,
                find_closest_color(Self, rgb[1], rgb[2], rgb[3]))

FindMultipleMatches ==
    \E n \in 1..MaxCount :
        CallMatcher("find_multiple_matches", <<>>, n,
                    find_multiple_matches(Self, rgb[1], rgb[2], rgb[3], n))

\* mutant of SearchByName: the names are lowered in place before the comparison
SearchByName_LoweredInPlace ==
    \E str \in NameInputs :
        /\ fn # "none"
        /\ given = "colors_file"
        /\ tree.built
        /\ fn' = "search_by_name"
        /\ color_names' = [i \in 1..Len(color_names) |-> Lower(color_names[i])]
        /\ out' = search_by_name([Self EXCEPT !.color_names = color_names'], str)
        /\ name' = str
        /\ count' = 0
        /\ UNCHANGED <<Args, app_vars, blindness_type, via, raised, colors_file, colors,
                       color_hex, tree, detector_vars>>

SearchByName ==
    \E str \in NameInputs :
        CallMatcher("search_by_name", str, 0, {search_by_name(Self, str)})

GetAllColors ==
    CallMatcher("get_all_colors", <<>>, 0, {get_all_colors(Self)})

MatcherNext ==
    \/ ColorMatcherInit
    \/ FindClosestColor
    \/ FindMultipleMatches
    \/ SearchByName
    \/ GetAllColors

MatcherSpec == MatcherInit /\ [][MatcherNext]_vars

(***************************************************************************)
(* get_color_matcher (src/core/color_matcher.py), called by several        *)
(* threads.  A thread can be preempted between any two of its steps: the   *)
(* test of the global, the construction, the store and the return, which   *)
(* reads the global again.  ColorMatcher objects are numbered from 1 in    *)
(* the order of their construction, 0 is None.                             *)
(***************************************************************************)
MaxThreads == 2
Threads == 1..MaxThreads

SingletonInit ==
    /\ fn = "none"
    /\ via = NoValue
    /\ out = NoValue
    /\ blindness_type = "none"
    /\ hex_color = NoHex
    /\ contrast_ratio = 0
    /\ rgb = NoRgb
    /\ given = "threads"
    /\ NoMatcher
    /\ NoDetector
    /\ matcher_instance = 0
    /\ constructed = 0
    /\ pc = [t \in Threads |-> "idle"]
    /\ got = [t \in Threads |-> 0]
    /\ NoCamera
    /\ NoHistory

\* a step of thread t in get_color_matcher from position `from` to position `to`
Step(t, from, to) ==
    /\ given = "threads"
    /\ pc[t] = from
    /\ pc' = [pc EXCEPT ![t] = to]
    /\ fn' = "get_color_matcher"
    /\ UNCHANGED <<Args, camera_vars, history_vars, blindness_type, via, out, matcher_vars,
                   detector_vars>>

\* thread t calls get_color_matcher()
Call(t) == Step(t, "idle", "test") /\ UNCHANGED <<matcher_instance, constructed, got>>

\* if _matcher_instance is None
TestInstance(t) ==
    /\ Step(t, "test", IF matcher_instance = 0 THEN "construct" ELSE "return")
    /\ UNCHANGED <<matcher_instance, constructed, got>>

\* ColorMatcher(): the new object is on the thread's stack, got[t] holds it
\* until the store
Construct(t) ==
    /\ Step(t, "construct", "store")
    /\ constructed' = constructed + 1
    /\ got' = [got EXCEPT ![t] = constructed + 1]
    /\ UNCHANGED matcher_instance

\* _matcher_instance = <the new object>
StoreInstance(t) ==
    /\ Step(t, "store", "return")
    /\ matcher_instance' = got[t]
    /\ UNCHANGED <<constructed, got>>

\* return _matcher_instance
ReturnInstance(t) ==
    /\ Step(t, "return", "idle")
    /\ got' = [got EXCEPT ![t] = matcher_instance]
    /\ UNCHANGED <<matcher_instance, constructed>>

SingletonNext ==
    \E t \in Threads :
        \/ Call(t)
        \/ TestInstance(t)
        \/ Construct(t)
        \/ StoreInstance(t)
        \/ ReturnInstance(t)

SingletonSpec == SingletonInit /\ [][SingletonNext]_vars

(***************************************************************************)
(* ColorDetector (src/core/color_detector.py).  An image is a height x     *)
(* width x 3 array of uint8, as cv2.imread and cv2.cvtColor produce it: a  *)
(* sequence of rows, each a sequence of pixels, each a triple of channels. *)
(* original_image holds the array as it was handed in, in its own channel  *)
(* order.                                                                  *)
(***************************************************************************)
\* images have 1..MaxSide rows and 1..MaxSide columns
MaxSide == 3
\* radius arguments range over 0..MaxRadius
MaxRadius == 1

Height(image) == Len(image)
Width(image) == Len(image[1])

\* cv2.cvtColor(image, cv2.COLOR_BGR2RGB): the channels of every pixel reversed
cvtColor_BGR2RGB(image) ==
    [py \in 1..Height(image) |->
        [px \in 1..Width(image) |->
            <<image[py][px][3], image[py][px][2], image[py][px][1]>>]]

\* load_image: cv2.imread returns None for a file it cannot decode
load_image(self, file) ==
    IF file.kind = "image"
    THEN [original_image |-> file.data, current_image |-> cvtColor_BGR2RGB(file.data),
          out |-> TRUE]
    ELSE [original_image |-> NoImage, current_image |-> self.current_image, out |-> FALSE]

\* load_from_array
load_from_array(self, image_array, is_bgr) ==
    [original_image |-> image_array,
     current_image |-> IF is_bgr THEN cvtColor_BGR2RGB(image_array) ELSE image_array,
     out |-> TRUE]

\* mutant of get_color_at_point: the lower bounds of the check are missing, and
\* a negative index counts from the end as numpy does
get_color_at_point_NoLowerBound(self, x, y) ==
    IF self.current_image = NoImage
    THEN None
    ELSE LET height == Height(self.current_image)
             width == Width(self.current_image)
         IN  IF x < width /\ y < height /\ x >= -width /\ y >= -height
             THEN Some(self.current_image[IF y < 0 THEN y + height + 1 ELSE y + 1]
                                         [IF x < 0 THEN x + width + 1 ELSE x + 1])
             ELSE None

\* get_color_at_point; the 0-based row y and column x are position y + 1 of the
\* rows and position x + 1 of the row
get_color_at_point(self, x, y) ==
    IF self.current_image = NoImage
    THEN None
    ELSE LET height == Height(self.current_image)
             width == Width(self.current_image)
         IN  IF 0 <= x /\ x < width /\ 0 <= y /\ y < height
             THEN Some(self.current_image[y + 1][x + 1])
             ELSE None

\* where the slice [start:stop] of an axis of length n ends, 0-based and
\* exclusive: a negative stop counts from the end
SliceStop(n, stop) == IF stop < 0 THEN Max(0, stop + n) ELSE Min(n, stop)

RECURSIVE RowSum(_, _, _, _)
\* the sum of channel c over the 0-based columns lo .. hi - 1 of a row
RowSum(row, lo, hi, c) ==
    IF lo >= hi THEN 0 ELSE row[lo + 1][c] + RowSum(row, lo + 1, hi, c)

RECURSIVE RegionSum(_, _, _, _, _, _)
\* the sum of channel c over the 0-based rows ylo .. yhi - 1, columns xlo .. xhi - 1
RegionSum(image, ylo, yhi, xlo, xhi, c) ==
    IF ylo >= yhi
    THEN 0
    ELSE RowSum(image[ylo + 1], xlo, xhi, c) + RegionSum(image, ylo + 1, yhi, xlo, xhi, c)

\* the number of pixels of image[ylo:yhi, xlo:xhi]
RegionPixels(ylo, yhi, xlo, xhi) == Max(0, yhi - ylo) * Max(0, xhi - xlo)

\* mutant of get_average_color_in_region: the box is not clamped at the far edges
\* of the image, the pixels beyond them count as black
get_average_color_in_region_Unclamped(self, x, y, r) ==
    IF self.current_image = NoImage
    THEN None
    ELSE LET height == Height(self.current_image)
             width == Width(self.current_image)
             y_min == Max(0, y - r)
             y_max == y + r + 1
             x_min == Max(0, x - r)
             x_max == x + r + 1
             size == RegionPixels(y_min, y_max, x_min, x_max)
         IN  IF size = 0
             THEN None
             ELSE Some([c \in 1..3 |->
                        RegionSum(self.current_image, y_min, SliceStop(height, y_max),
                                  x_min, SliceStop(width, x_max), c) \div size])

\* get_average_color_in_region.  np.mean over the rows and columns of the region
\* is the sum of at most height * width values below 256 divided by their
\* number, both exact in float64, and int() drops the fraction
get_average_color_in_region(self, x, y, r) ==
    IF self.current_image = NoImage
    THEN None
    ELSE LET height == Height(self.current_image)
             width == Width(self.current_image)
             y_min == Max(0, y - r)
             y_max == SliceStop(height, Min(height, y + r + 1))
             x_min == Max(0, x - r)
             x_max == SliceStop(width, Min(width, x + r + 1))
             size == RegionPixels(y_min, y_max, x_min, x_max)
         IN  IF size = 0
             THEN None
             ELSE Some([c \in 1..3 |->
                        RegionSum(self.current_image, y_min, y_max, x_min, x_max, c) \div size])

\* the pixels of the sampled images, in the channel order of the array
PixelA == <<255, 0, 10>>
PixelB == <<0, 128, 11>>
PixelOf(pattern, py, px) ==
    CASE pattern = "checkerboard" -> IF (py + px) % 2 = 0 THEN PixelA ELSE PixelB
      [] pattern = "gradient" -> <<(80 * px + 7 * py) % 256, (45 * py) % 256, (29 * px * py) % 256>>

\* the image array of h rows and w columns with the pixels of `pattern`
Image(pattern, h, w) == [py \in 1..h |-> [px \in 1..w |-> PixelOf(pattern, py, px)]]

\* the sampled image arrays of the loaders
Images == {Image("gradient", h, w) : h \in 1..MaxSide, w \in 1..MaxSide}

\* what load_image finds at image_path
ImageFiles == {[kind |-> "unreadable"]} \cup {[kind |-> "image", data |-> i] : i \in Images}

\* the x and y arguments: every index of the largest image, two before, one after
Coordinates == -2..MaxSide
\* the radius arguments
Radii == 0..MaxRadius

\* before ColorDetector() is constructed
DetectorInit ==
    /\ fn = "none"
    /\ via = NoValue
    /\ out = NoValue
    /\ blindness_type = "none"
    /\ hex_color = NoHex
    /\ contrast_ratio = 0
    /\ rgb = NoRgb
    /\ given = "image"
    /\ NoMatcher
    /\ NoDetector
    /\ NoApp

\* the ColorDetector object of the current state
Detector == [current_image |-> current_image, original_image |-> original_image]

\* ColorDetector(): __init__
ColorDetectorInit ==
    /\ fn = "none"
    /\ given = "image"
    /\ fn' = "ColorDetector"
    /\ current_image' = NoImage
    /\ original_image' = NoImage
    /\ UNCHANGED <<Args, app_vars, blindness_type, via, out, matcher_vars, point, radius, n_colors,
                   sample_size, kmeans>>

\* a loader call that leaves the detector as `result` says
CallLoader(f, result) ==
    /\ fn # "none"
    /\ given = "image"
    /\ fn' = f
    /\ current_image' = result.current_image
    /\ original_image' = result.original_image
    /\ out' = result.out
    /\ point' = <<0, 0>>
    /\ radius' = 0
    /\ n_colors' = 0
    /\ sample_size' = 0
    /\ kmeans' = NoKMeans
    /\ UNCHANGED <<Args, app_vars, blindness_type, via, matcher_vars>>

LoadImage ==
    \E file \in ImageFiles : CallLoader("load_image", load_image(Detector, file))

LoadFromArray ==
    \E image_array \in Images, is_bgr \in BOOLEAN :
        CallLoader("load_from_array", load_from_array(Detector, image_array, is_bgr))

\* a query of the detector at (x, y) with radius r that returns `result`
CallDetector(f, x, y, r, result) ==
    /\ fn # "none"
    /\ given = "image"
    /\ fn' = f
    /\ point' = <<x, y>>
    /\ radius' = r
    /\ out' = result
    /\ n_colors' = 0
    /\ sample_size' = 0
    /\ kmeans' = NoKMeans
    /\ UNCHANGED <<Args, app_vars, blindness_type, via, matcher_vars, current_image, original_image>>

GetColorAtPoint ==
    \E x \in Coordinates, y \in Coordinates :
        CallDetector("get_color_at_point", x, y, 0, get_color_at_point(Detector, x, y))

GetAverageColorInRegion ==
    \E x \in Coordinates, y \in Coordinates, r \in Radii :
        CallDetector("get_average_color_in_region", x, y, r,
                     get_average_color_in_region(Detector, x, y, r))

DetectorNext ==
    \/ ColorDetectorInit
    \/ LoadImage
    \/ LoadFromArray
    \/ GetColorAtPoint
    \/ GetAverageColorInRegion

DetectorSpec == DetectorInit /\ [][DetectorNext]_vars

(***************************************************************************)
(* ColorDetector.extract_dominant_colors.  KMeans(random_state=42).fit is  *)
(* a library call whose clustering is fixed by its input but not by this   *)
(* repository: a fit returns any clustering in which equal pixels share a  *)
(* label and every cluster receives a pixel while distinct pixels last,    *)
(* and fitting the same pixels again returns the same clustering.          *)
(* A centroid is the exact mean of its cluster; the rounding error of the  *)
(* library's float arithmetic on it is not modelled.                       *)
(***************************************************************************)
\* n_colors arguments range over 1..MaxColors
MaxColors == 3
\* sample_size arguments are SampleCap and the default 10000
SampleCap == 2
SampleSizes == {SampleCap, 10000}

\* current_image.reshape(-1, 3): the pixels row by row
Reshape(image) ==
    [j \in 1..(Height(image) * Width(image)) |->
        image[((j - 1) \div Width(image)) + 1][((j - 1) % Width(image)) + 1]]

\* np.random.choice(n, size, replace=False) of the unseeded global generator:
\* any `size` distinct indices; they are listed in ascending order here
Choices(n, size) ==
    {idx \in [1..size -> 1..n] : \A a, b \in 1..size : a < b => idx[a] < idx[b]}

\* the pixels that are clustered
SampledPixels(pixels, size) ==
    IF Len(pixels) > size
    THEN {[j \in 1..size |-> pixels[idx[j]]] : idx \in Choices(Len(pixels), size)}
    ELSE {pixels}

\* the estimator after a fit that labelled each distinct pixel by `label`; a
\* cluster without pixels has its centre at the pixel `spare`
Fitted(pixels, k, label, spare) ==
    LET members(i) == {j \in 1..Len(pixels) : label[pixels[j]] = i}
        total(i, c) == RowSum([j \in 1..Len(pixels) |->
                                  IF j \in members(i) THEN pixels[j] ELSE <<0, 0, 0>>],
                              0, Len(pixels), c)
    IN  [raised |-> "none", fitted |-> TRUE, pixels |-> pixels, n_clusters |-> k,
         labels_ |-> [j \in 1..Len(pixels) |-> label[pixels[j]]],
         cluster_centers_ |->
             [i \in 0..(k - 1) |->
                 IF members(i) = {}
                 THEN [sum |-> spare, n |-> 1]
                 ELSE [sum |-> [c \in 1..3 |-> total(i, c)], n |-> Cardinality(members(i))]]]

\* KMeans(n_clusters=k, random_state=42, n_init=10).fit(pixels): fewer samples
\* than clusters raise ValueError
KMeans_fit(pixels, k) ==
    IF Len(pixels) < k
    THEN {[raised |-> "ValueError", fitted |-> FALSE]}
    ELSE LET distinct == {pixels[j] : j \in 1..Len(pixels)}
             labelling == {label \in [distinct -> 0..(k - 1)] :
                              Cardinality({label[x] : x \in distinct})
                                  = Min(k, Cardinality(distinct))}
         IN  {Fitted(pixels, k, label, spare) : label \in labelling, spare \in distinct}

\* mutant of RoundedPercentage: the percentage is cut to a whole percent
RoundedPercentage_Whole(cnt, total) == ((100 * cnt) \div total) * 10

\* round(count / total * 100, 1) in tenths of a percent, halves to the even tenth
RoundedPercentage(cnt, total) ==
    LET q == (1000 * cnt) \div total
        r == (1000 * cnt) % total
    IN  IF 2 * r < total \/ (2 * r = total /\ q % 2 = 0) THEN q ELSE q + 1

\* np.unique(labels, return_counts=True): the labels in use, ascending, and
\* how many pixels carry each
Unique(labels) ==
    LET used == {labels[j] : j \in 1..Len(labels)}
        unique == CHOOSE u \in [1..Cardinality(used) -> used] :
                      \A a, b \in 1..Cardinality(used) : a < b => u[a] < u[b]
    IN  [unique |-> unique,
         counts |-> [a \in 1..Cardinality(used) |->
                        Cardinality({j \in 1..Len(labels) : labels[j] = unique[a]})]]

\* the results list before it is sorted: zip(colors, percentages) pairs the
\* i-th centre with the i-th label in use
Results(fit) ==
    LET counts == Unique(fit.labels_).counts
    IN  [i \in 1..Min(fit.n_clusters, Len(counts)) |->
            [rgb |-> [c \in 1..3 |-> fit.cluster_centers_[i - 1].sum[c]
                                     \div fit.cluster_centers_[i - 1].n],
             percentage |-> RoundedPercentage(counts[i], Len(fit.labels_)),
             count |-> counts[i]]]

RECURSIVE SortAscending(_)
\* mutant of SortDescending: the list is sorted by percentage ascending
SortAscending(results) ==
    IF results = <<>>
    THEN <<>>
    ELSE LET sorted == SortAscending(SubSeq(results, 1, Len(results) - 1))
             x == results[Len(results)]
             p == Cardinality({a \in 1..Len(sorted) : sorted[a].percentage <= x.percentage})
         IN  SubSeq(sorted, 1, p) \o <<x>> \o SubSeq(sorted, p + 1, Len(sorted))

RECURSIVE SortDescending(_)
\* results.sort(key=percentage, reverse=True): the stable sort keeps entries of
\* equal percentage in their order
SortDescending(results) ==
    IF results = <<>>
    THEN <<>>
    ELSE LET sorted == SortDescending(SubSeq(results, 1, Len(results) - 1))
             x == results[Len(results)]
             p == Cardinality({a \in 1..Len(sorted) : sorted[a].percentage >= x.percentage})
         IN  SubSeq(sorted, 1, p) \o <<x>> \o SubSeq(sorted, p + 1, Len(sorted))

\* the sampled images of extract_dominant_colors: one pixel, two colours on
\* four pixels, three colours on three pixels, four colours on four pixels
SampleImages ==
    {Image("checkerboard", 1, 1), Image("checkerboard", 2, 2),
     Image("gradient", 1, 3), Image("gradient", 2, 2)}

LoadSample ==
    \E image_array \in SampleImages, is_bgr \in BOOLEAN :
        CallLoader("load_from_array", load_from_array(Detector, image_array, is_bgr))

\* extract_dominant_colors(n_colors, sample_size)
ExtractDominantColors ==
    /\ fn # "none"
    /\ given = "image"
    /\ fn' = "extract_dominant_colors"
    /\ \E k \in 1..MaxColors, size \in SampleSizes :
          /\ n_colors' = k
          /\ sample_size' = size
          /\ IF current_image = NoImage
             THEN kmeans' = NoKMeans /\ out' = <<>>
             ELSE \E pixels \in SampledPixels(Reshape(current_image), size) :
                     /\ kmeans' \in IF /\ kmeans.fitted
                                      /\ kmeans.pixels = pixels
                                      /\ kmeans.n_clusters = k
                                      /\ Len(pixels) = Height(current_image) * Width(current_image)
                                   THEN {kmeans}
                                   ELSE KMeans_fit(pixels, k)
                     /\ out' = IF kmeans'.raised # "none"
                               THEN NoValue
                               ELSE SortDescending(Results(kmeans'))
    /\ point' = <<0, 0>>
    /\ radius' = 0
    /\ UNCHANGED <<Args, app_vars, blindness_type, via, matcher_vars, current_image, original_image>>

ExtractNext ==
    \/ ColorDetectorInit
    \/ LoadSample
    \/ ExtractDominantColors

ExtractSpec == DetectorInit /\ [][ExtractNext]_vars

(***************************************************************************)
(* The camera of ColorDetectionApp (src/ui/app.py).  Handlers run on the   *)
(* Tk main loop, one at a time, except that _display_image calls           *)
(* canvas.update(), which runs other handlers before it returns: an        *)
(* _update_camera_frame that has shown a frame waits in `updating` while   *)
(* they run.  A callback carries the number of the camera session whose    *)
(* start began its chain.  The application's own current_image is the      *)
(* detector's and is not kept apart.                                       *)
(***************************************************************************)
\* the camera is started at most MaxSessions times
MaxSessions == 3

\* what camera.read_frame() returns, None or a frame, and what Upload Image opens
Frames == {NoImage, Image("gradient", 1, 1)}
UploadFiles == {[kind |-> "unreadable"], [kind |-> "image", data |-> Image("checkerboard", 1, 1)]}

CameraInit ==
    /\ fn = "none"
    /\ via = NoValue
    /\ out = NoValue
    /\ blindness_type = "none"
    /\ hex_color = NoHex
    /\ contrast_ratio = 0
    /\ rgb = NoRgb
    /\ given = "events"
    /\ NoMatcher
    /\ NoDetector
    /\ NoApp

\* the handler `handler` ran and scheduled the callbacks `scheduled`
Handled(handler, scheduled) ==
    /\ given = "events"
    /\ fn' = handler
    /\ out' = scheduled
    /\ UNCHANGED <<Args, singleton_vars, history_vars, blindness_type, via, matcher_vars,
                   point, radius, n_colors, sample_size, kmeans>>

\* _update_camera_frame of the chain of session `chain`, called with the
\* callbacks `rest` pending, up to its return or its wait in canvas.update()
update_camera_frame(handler, chain, rest, running, cam) ==
    IF ~running \/ ~cam
    THEN /\ Handled(handler, <<>>)
         /\ pending' = rest
         /\ UNCHANGED <<updating, current_image>>
    ELSE \E frame \in Frames :
            IF frame = NoImage
            THEN /\ Handled(handler, <<chain>>)
                 /\ pending' = Append(rest, chain)
                 /\ UNCHANGED <<updating, current_image>>
            ELSE /\ Handled(handler, <<>>)
                 /\ pending' = rest
                 /\ updating' = Append(updating, chain)
                 /\ current_image' = frame

\* _toggle_camera: _stop_camera, or _start_camera with its _update_camera_frame()
ToggleCamera ==
    IF camera_running
    THEN /\ Handled("_toggle_camera", <<>>)
         /\ camera_running' = FALSE
         /\ camera' = FALSE
         /\ UNCHANGED <<session, pending, updating, current_image, original_image>>
    ELSE /\ session < MaxSessions
         /\ camera' = TRUE
         /\ UNCHANGED original_image
         /\ \E started \in BOOLEAN :
               IF started
               THEN /\ camera_running' = TRUE
                    /\ session' = session + 1
                    /\ update_camera_frame("_toggle_camera", session + 1, pending, TRUE, TRUE)
               ELSE /\ Handled("_toggle_camera", <<>>)
                    /\ UNCHANGED <<camera_running, session, pending, updating, current_image>>

\* a pending callback is due: _update_camera_frame
TimerFires ==
    /\ pending # <<>>
    /\ update_camera_frame("_update_camera_frame", Head(pending), Tail(pending),
                           camera_running, camera)
    /\ UNCHANGED <<camera_running, camera, session, original_image>>

\* canvas.update() returns to the innermost waiting _update_camera_frame, which
\* ends with: if self.camera_running: self.root.after(30, self._update_camera_frame)
DisplayReturns ==
    /\ updating # <<>>
    /\ LET chain == updating[Len(updating)]
       IN  /\ Handled("_update_camera_frame", IF camera_running THEN <<chain>> ELSE <<>>)
           /\ pending' = IF camera_running THEN Append(pending, chain) ELSE pending
    /\ updating' = SubSeq(updating, 1, Len(updating) - 1)
    /\ UNCHANGED <<camera_running, camera, session, current_image, original_image>>

\* _capture_snapshot
CaptureSnapshot ==
    /\ Handled("_capture_snapshot", <<>>)
    /\ \E frame \in Frames :
          IF camera_running /\ camera /\ frame # NoImage
          THEN /\ camera_running' = FALSE
               /\ camera' = FALSE
               /\ current_image' = frame
          ELSE UNCHANGED <<camera_running, camera, current_image>>
    /\ UNCHANGED <<session, pending, updating, original_image>>

\* _upload_image with a file chosen in the dialog
UploadImage ==
    /\ Handled("_upload_image", <<>>)
    /\ camera_running' = FALSE
    /\ camera' = IF camera_running THEN FALSE ELSE camera
    /\ \E file \in UploadFiles :
          LET loaded == load_image(Detector, file)
          IN  /\ current_image' = loaded.current_image
              /\ original_image' = loaded.original_image
    /\ UNCHANGED <<session, pending, updating>>

CameraNext ==
    \/ ToggleCamera
    \/ TimerFires
    \/ DisplayReturns
    \/ CaptureSnapshot
    \/ UploadImage

CameraSpec == CameraInit /\ [][CameraNext]_vars

(***************************************************************************)
(* The colour history of ColorDetectionApp (src/ui/app.py).  Every         *)
(* selection ends in _update_color_display; a canvas click adds the colour *)
(* to the history once more.  The matcher is the one built on the fallback *)
(* palette, and the history the application starts with is one it saved.   *)
(***************************************************************************)
\* self.max_history
max_history == 20

\* self.matcher
AppMatcher ==
    LET lists == use_fallback_colors(EmptyLists)
    IN  [colors |-> lists.colors, color_names |-> lists.color_names,
         color_hex |-> lists.color_hex, tree |-> build_tree(lists.colors).tree]

\* the entry _add_to_history builds for rgb: the name is the closest colour's
HistoryEntries(c) ==
    {[rgb |-> c, hex |-> rgb_to_hex(c[1], c[2], c[3]), name |-> match.name] :
        match \in find_closest_color(AppMatcher, c[1], c[2], c[3])}

\* mutant of add_to_history: the entries of the same hex are not removed
add_to_history_NoFilter(history, entry) ==
    SubSeq(<<entry>> \o history, 1, Min(max_history, Len(history) + 1))

\* _add_to_history: filter by hex, insert(0, entry), [:self.max_history]
add_to_history(history, entry) ==
    LET others == SelectSeq(history, LAMBDA c : c.hex # entry.hex)
    IN  SubSeq(<<entry>> \o others, 1, Min(max_history, Len(others) + 1))

\* the i-th colour of the saved history
SavedColor(i) == <<(37 * i) % 256, (11 * i) % 256, 200>>
SavedEntry(i) == CHOOSE entry \in HistoryEntries(SavedColor(i)) : TRUE

\* the "history" list of user_data.json: none, or one of max_history - 1 or
\* max_history entries that _save_user_data wrote
SavedHistories ==
    {[i \in 1..n |-> SavedEntry(i)] : n \in {0, max_history - 1, max_history}}

\* the colours of swatches, of the Use buttons and of the mixer: two that a
\* saved history holds and two it does not
SwatchColors == {SavedColor(7), SavedColor(max_history), <<255, 0, 0>>, <<18, 52, 86>>}

\* the image coordinates of a click: the pixels of the image and one point beside it
ClickPoints == {<<0, 0>>, <<1, 0>>, <<2, 0>>}

HistoryInit ==
    /\ fn = "none"
    /\ via = NoValue
    /\ out = NoValue
    /\ blindness_type = "none"
    /\ hex_color = NoHex
    /\ contrast_ratio = 0
    /\ rgb = NoRgb
    /\ given = "selections"
    /\ NoMatcher
    /\ LET loaded == load_image([current_image |-> NoImage, original_image |-> NoImage],
                                [kind |-> "image", data |-> Image("gradient", 1, 2)])
       IN  /\ current_image = loaded.current_image
           /\ original_image = loaded.original_image
    /\ point = <<0, 0>>
    /\ radius = 0
    /\ n_colors = 0
    /\ sample_size = 0
    /\ kmeans = NoKMeans
    /\ NoSingleton
    /\ NoCamera
    /\ color_history \in SavedHistories
    /\ current_color = <<>>

\* the handler `handler` ran and selected `selected`, None or Some colour
Selected(handler, selected) ==
    /\ given = "selections"
    /\ fn' = handler
    /\ out' = selected
    /\ UNCHANGED <<given, hex_color, contrast_ratio, singleton_vars, camera_vars, blindness_type,
                   via, matcher_vars, current_image, original_image, radius, n_colors,
                   sample_size, kmeans>>

\* self.current_color as _update_color_display sets it
CurrentColor(entry) ==
    [rgb |-> entry.rgb, hex |-> entry.hex, name |-> entry.name,
     hsv |-> rgb_to_hsv(entry.rgb[1], entry.rgb[2], entry.rgb[3]),
     hsl |-> rgb_to_hsl(entry.rgb[1], entry.rgb[2], entry.rgb[3]),
     cmyk |-> rgb_to_cmyk(entry.rgb[1], entry.rgb[2], entry.rgb[3])]

\* _update_color_display(c) from a harmony or palette swatch, a Use button or
\* the mixer's Apply
UpdateColorDisplay ==
    \E c \in SwatchColors : \E entry \in HistoryEntries(c) :
        /\ Selected("_update_color_display", Some(c))
        /\ rgb' = c
        /\ current_color' = CurrentColor(entry)
        /\ color_history' = add_to_history(color_history, entry)
        /\ UNCHANGED point

\* _on_canvas_click at the image coordinates p
OnCanvasClick ==
    \E p \in ClickPoints :
        LET color == get_color_at_point(Detector, p[1], p[2])
        IN  /\ Selected("_on_canvas_click", color)
            /\ point' = p
            /\ UNCHANGED rgb
            /\ IF color = None
               THEN UNCHANGED history_vars
               ELSE \E c \in color : \E entry \in HistoryEntries(c) :
                       /\ current_color' = CurrentColor(entry)
                       /\ color_history' =
                              add_to_history(add_to_history(color_history, entry), entry)

HistoryNext ==
    \/ UpdateColorDisplay
    \/ OnCanvasClick

HistorySpec == HistoryInit /\ [][HistoryNext]_vars

(***************************************************************************)
(* Properties.                                                             *)
(***************************************************************************)
IsHexDigits(s) == \A i \in 1..Len(s) : s[i] \in HexDigits

\* C1: for every (r, g, b) with channels in 0..255, rgb_to_hex(r, g, b) is '#'
\* followed by exactly six uppercase hexadecimal digits, and hex_to_rgb of it
\* returns (r, g, b).
C1_HexRoundTrip ==
    /\ fn = "rgb_to_hex" =>
          /\ Len(out) = 7
          /\ out[1] = "#"
          /\ \A i \in 2..7 : out[i] \in UpperHexDigits
    /\ fn = "hex_to_rgb" /\ given = "rgb" =>
          /\ out.raised = "none"
          /\ out.value = rgb

C1_Witness ==
    /\ fn = "hex_to_rgb"
    /\ given = "rgb"
    /\ rgb = <<255, 165, 0>>
    /\ via = <<"#", "F", "F", "A", "5", "0", "0">>
    /\ out.value = <<255, 165, 0>>

\* C2: hex_to_rgb of a three-digit form XYZ equals hex_to_rgb of XXYYZZ, and
\* hex_to_rgb of '#' + s equals hex_to_rgb of s for every s of three or six
\* hexadecimal digits; both return a triple.
C2_ShorthandAndHash ==
    fn = "hex_to_rgb" /\ given = "hex_color" =>
       /\ Len(hex_color) = 3 /\ IsHexDigits(hex_color) =>
             /\ out.raised = "none"
             /\ out = hex_to_rgb(<<hex_color[1], hex_color[1], hex_color[2],
                                   hex_color[2], hex_color[3], hex_color[3]>>)
       /\ Len(hex_color) \in {4, 7} /\ Head(hex_color) = "#" /\ IsHexDigits(Tail(hex_color)) =>
             /\ out.raised = "none"
             /\ out = hex_to_rgb(Tail(hex_color))

C2_Witness ==
    /\ fn = "hex_to_rgb"
    /\ hex_color = <<"#", "F", "b", "7">>
    /\ out.value = <<255, 187, 119>>

\* a string that, after one optional leading '#' is removed, is not exactly
\* three or exactly six hexadecimal digits
Malformed(h) ==
    LET body == IF h # <<>> /\ Head(h) = "#" THEN Tail(h) ELSE h
    IN  ~(Len(body) \in {3, 6} /\ IsHexDigits(body))

\* C3: hex_to_rgb raises for every malformed hex string and never returns a
\* triple for one.
C3_MalformedRaises ==
    fn = "hex_to_rgb" /\ given = "hex_color" /\ Malformed(hex_color) =>
        out.raised = "ValueError"

\* the largest difference between two triples, channel by channel
Drift(a, b) == Max3(Abs(a[1] - b[1]), Abs(a[2] - b[2]), Abs(a[3] - b[3]))

\* C4 as stated: the round trips hsv_to_rgb(rgb_to_hsv(r, g, b)) and
\* hsl_to_rgb(rgb_to_hsl(r, g, b)) differ from (r, g, b) by at most 1 in every
\* channel.
C4_DriftAtMostOne ==
    fn \in {"hsv_to_rgb", "hsl_to_rgb"} => Drift(out, rgb) <= 1

\* C4 amended: hsv_to_rgb(rgb_to_hsv(r, g, b)) differs from (r, g, b) by at most
\* 7 in every channel, hsl_to_rgb(rgb_to_hsl(r, g, b)) by at most 10.
C4_TruncationDrift ==
    /\ fn = "hsv_to_rgb" => Drift(out, rgb) <= 7
    /\ fn = "hsl_to_rgb" => Drift(out, rgb) <= 10

C4_Witness ==
    /\ fn = "hsv_to_rgb"
    /\ rgb = <<254, 254, 254>>
    /\ via = <<0, 0, 99>>
    /\ out = <<252, 252, 252>>

\* C5 as stated: cmyk_to_rgb(rgb_to_cmyk(r, g, b)) differs from (r, g, b) by at
\* most 1 in every channel.
C5_DriftAtMostOne ==
    fn = "cmyk_to_rgb" => Drift(out, rgb) <= 1

\* C5 amended: cmyk_to_rgb(rgb_to_cmyk(r, g, b)) differs from (r, g, b) by at
\* most 4 in every channel.
C5_TruncationDrift ==
    fn = "cmyk_to_rgb" => Drift(out, rgb) <= 4

C5_Witness ==
    /\ fn = "cmyk_to_rgb"
    /\ rgb = <<240, 240, 240>>
    /\ via = <<0, 0, 0, 5>>
    /\ out = <<242, 242, 242>>

\* C6: rgb_to_hsv and rgb_to_hsl return a hue in [0, 360) and two percentages
\* in [0, 100]; rgb_to_cmyk returns four percentages in [0, 100], and exactly
\* (0, 0, 0, 100) for black.
C6_Ranges ==
    /\ fn \in {"rgb_to_hsv", "rgb_to_hsl"} =>
          /\ out[1] \in 0..359
          /\ out[2] \in 0..100
          /\ out[3] \in 0..100
    /\ fn = "rgb_to_cmyk" =>
          /\ \A i \in 1..4 : out[i] \in 0..100
          /\ rgb = <<0, 0, 0>> => out = <<0, 0, 0, 100>>

C6_Witness ==
    /\ fn = "rgb_to_cmyk"
    /\ rgb = <<0, 0, 0>>
    /\ out = <<0, 0, 0, 100>>

\* out is <<hsv_to_rgb((h + o1) mod 360, s, v), hsv_to_rgb((h + o2) mod 360, s, v)>>
\* for (h, s, v) = rgb_to_hsv(rgb), with both rotated hues in [0, 360)
IsRotation(o1, o2) ==
    /\ Len(out) = 2
    /\ \E hsv \in rgb_to_hsv(rgb[1], rgb[2], rgb[3]) :
          /\ (hsv[1] + o1) % 360 \in 0..359
          /\ (hsv[1] + o2) % 360 \in 0..359
          /\ out[1] \in hsv_to_rgb((hsv[1] + o1) % 360, hsv[2], hsv[3])
          /\ out[2] \in hsv_to_rgb((hsv[1] + o2) % 360, hsv[2], hsv[3])

\* C7 as stated: the harmony functions return two colours, the hue rotated by
\* (+120, -120) for triadic, (+30, -30) for analogous and (150, 210) for
\* split-complementary, in that order.
C7_RotationsAsStated ==
    /\ fn = "get_triadic_colors" => IsRotation(120, -120)
    /\ fn = "get_analogous_colors" => IsRotation(30, -30)
    /\ fn = "get_split_complementary" => IsRotation(150, 210)

\* C7 amended: as stated, with the analogous colours in the order (-30, +30).
C7_Rotations ==
    /\ fn = "get_triadic_colors" => IsRotation(120, -120)
    /\ fn = "get_analogous_colors" => IsRotation(-30, 30)
    /\ fn = "get_split_complementary" => IsRotation(150, 210)

C7_Witness ==
    /\ fn = "get_analogous_colors"
    /\ rgb = <<255, 0, 0>>
    /\ out = <<<<255, 0, 127>>, <<255, 127, 0>>>>

\* the (h, s, v) of the input from which a harmony function can have computed
\* the two colours in `via`
HarmonySources ==
    {hsv \in rgb_to_hsv(rgb[1], rgb[2], rgb[3]) :
        via \in RotateHue(hsv, TriadicOffsets) \cup RotateHue(hsv, AnalogousOffsets)
                   \cup RotateHue(hsv, SplitOffsets)}

\* C8 as stated: for every colour c a harmony function returns, rgb_to_hsv(c)
\* has the same saturation and the same value as rgb_to_hsv(input).
C8_SameSaturationAndValue ==
    fn = "rgb_to_hsv(harmony)" =>
       \E hsv \in HarmonySources : out[2] = hsv[2] /\ out[3] = hsv[3]

\* C8 amended: for every colour c a harmony function returns and
\* (h, s, v) = rgb_to_hsv(input), the value of rgb_to_hsv(c) is v or v - 1 and,
\* when v is at least 40, its saturation is s or s - 1.
C8_TruncatedSaturationAndValue ==
    fn = "rgb_to_hsv(harmony)" =>
       \A hsv \in HarmonySources :
          /\ out[3] \in {hsv[3] - 1, hsv[3]}
          /\ hsv[3] >= 40 => out[2] \in {hsv[2] - 1, hsv[2]}

C8_Witness ==
    /\ fn = "rgb_to_hsv(harmony)"
    /\ rgb = <<254, 254, 254>>
    /\ via = <<<<252, 252, 252>>, <<252, 252, 252>>>>
    /\ out = <<0, 0, 98>>

\* C9 as stated: get_wcag_rating returns "AAA" from 7.0, "AA" from 4.5,
\* "AA Large" from 3.0 and "Fail" below.
C9_ShortLabels ==
    fn = "get_wcag_rating" =>
       /\ contrast_ratio >= 700 => out = "AAA"
       /\ contrast_ratio >= 450 /\ contrast_ratio < 700 => out = "AA"
       /\ contrast_ratio >= 300 /\ contrast_ratio < 450 => out = "AA Large"
       /\ contrast_ratio < 300 => out = "Fail"

\* C9 amended: get_wcag_rating returns "AAA (Excellent)" from 7.0,
\* "AA (Good)" from 4.5, "AA Large (Acceptable)" from 3.0 and "Fail (Poor)"
\* below, the lower bounds inclusive.
C9_Thresholds ==
    fn = "get_wcag_rating" =>
       /\ contrast_ratio >= 700 => out = "AAA (Excellent)"
       /\ contrast_ratio >= 450 /\ contrast_ratio < 700 => out = "AA (Good)"
       /\ contrast_ratio >= 300 /\ contrast_ratio < 450 => out = "AA Large (Acceptable)"
       /\ contrast_ratio < 300 => out = "Fail (Poor)"

C9_Witness ==
    /\ fn = "get_wcag_rating"
    /\ contrast_ratio = 700
    /\ out = "AAA (Excellent)"

\* C10: for each of the four types simulate_color_blindness returns three
\* integers in [0, 255].
C10_InRange ==
    fn = "simulate_color_blindness"
       /\ blindness_type \in {"protanopia", "deuteranopia", "tritanopia", "achromatopsia"} =>
          \A i \in 1..3 : out[i] \in 0..255

C10_Witness ==
    /\ fn = "simulate_color_blindness"
    /\ blindness_type = "protanopia"
    /\ rgb = <<255, 0, 0>>
    /\ out = <<144, 142, 0>>

\* C11: for every type name that is not one of the four known ones,
\* simulate_color_blindness returns (r, g, b) unchanged.
C11_UnknownTypeUnchanged ==
    fn = "simulate_color_blindness"
       /\ blindness_type \notin {"protanopia", "deuteranopia", "tritanopia", "achromatopsia"} =>
          out = rgb

C11_Witness ==
    /\ fn = "simulate_color_blindness"
    /\ blindness_type = "Protanopia"
    /\ rgb = <<255, 0, 0>>
    /\ out = <<255, 0, 0>>

\* the file cannot be loaded: it is missing, unreadable, not JSON, or one of its
\* entries lacks a key
LoadFails(file) ==
    \/ file.kind \in {"missing", "unreadable", "invalid_json"}
    \/ /\ file.kind = "ok"
       /\ "colors" \in DOMAIN file.data
       /\ \E i \in 1..Len(file.data.colors) :
             {"name", "rgb", "hex"} \ DOMAIN file.data.colors[i] # {}

\* C12: whenever loading the database fails, the construction of ColorMatcher
\* completes without an exception and the palette is exactly the 13 fallback
\* entries in their order.
C12_LoadFailureGivesFallback ==
    fn = "ColorMatcher" /\ LoadFails(colors_file) =>
       /\ raised = "none"
       /\ colors = [i \in 1..13 |-> Fallback[i].rgb]
       /\ color_names = [i \in 1..13 |-> Fallback[i].name]
       /\ color_hex = [i \in 1..13 |-> Fallback[i].hex]

\* the positions of the palette entries nearest to the query rgb
NearestPositions ==
    {i \in 1..Len(colors) : \A j \in 1..Len(colors) : Dist2(colors[i], rgb) <= Dist2(colors[j], rgb)}

\* C13: find_closest_color returns a palette entry at the minimum distance over
\* the whole palette, reports that distance, and among several entries at the
\* minimum distance returns the first in palette order.
C13_NearestFirstInOrder ==
    fn = "find_closest_color" =>
       LET first == CHOOSE i \in NearestPositions : \A j \in NearestPositions : i <= j
       IN  /\ out.distance = Dist2(colors[first], rgb)
           /\ out.name = color_names[first]
           /\ out.hex = color_hex[first]
           /\ out.rgb = colors[first]

\* the positions of the palette entries whose colour is the query rgb
SameColour == {i \in 1..Len(colors) : colors[i] = rgb}

\* the palette holds an entry of this name and colour
Holds(str, colour) ==
    \E i \in 1..Len(colors) : color_names[i] = str /\ colors[i] = colour

\* C14 as stated: for every palette entry e, find_closest_color(e.rgb) returns
\* an entry with rgb equal to e.rgb, distance 0 and confidence 100; (0,0,0)
\* returns Black and (255,165,0) returns Orange when the palette contains them.
C14_EntryFoundByName ==
    fn = "find_closest_color" /\ SameColour # {} =>
       /\ out.rgb = rgb
       /\ out.distance = 0
       /\ out.confidence = 1000
       /\ rgb = <<0, 0, 0>> /\ Holds(<<"B", "l", "a", "c", "k">>, rgb) => out.name = <<"B", "l", "a", "c", "k">>
       /\ rgb = <<255, 165, 0>> /\ Holds(<<"O", "r", "a", "n", "g", "e">>, rgb) => out.name = <<"O", "r", "a", "n", "g", "e">>

\* C14 amended: for every palette entry e, find_closest_color(e.rgb) returns an
\* entry with rgb equal to e.rgb, distance 0 and confidence 100; it returns e
\* itself, so Black for (0,0,0) and Orange for (255,165,0), when no other entry
\* has the same rgb.
C14_EntryFound ==
    fn = "find_closest_color" /\ SameColour # {} =>
       /\ out.rgb = rgb
       /\ out.distance = 0
       /\ out.confidence = 1000
       /\ \A i \in SameColour :
             SameColour = {i} => out.name = color_names[i] /\ out.hex = color_hex[i]

C14_Witness ==
    /\ fn = "find_closest_color"
    /\ colors_file = [kind |-> "missing"]
    /\ rgb = <<255, 165, 0>>
    /\ out.name = <<"O", "r", "a", "n", "g", "e">>
    /\ out.distance = 0
    /\ out.confidence = 1000

\* C15: against one palette, a query whose nearest entry is not farther than
\* that of another query gets a confidence that is not lower, and every
\* confidence lies in [0, 100].
C15_ConfidenceMonotone ==
    fn = "find_closest_color" =>
       /\ out.confidence \in 0..1000
       /\ \A q \in QueryInputs : \A other \in find_closest_color(Self, q[1], q[2], q[3]) :
             /\ out.distance <= other.distance => out.confidence >= other.confidence
             /\ other.distance <= out.distance => other.confidence >= out.confidence

C15_Witness ==
    /\ fn = "find_closest_color"
    /\ colors_file = [kind |-> "missing"]
    /\ rgb = <<128, 0, 0>>
    /\ out.name = <<"B", "r", "o", "w", "n">>
    /\ out.distance = 37 * 37 + 42 * 42 + 42 * 42
    /\ out.confidence = 842

\* C16: find_multiple_matches returns exactly min(count, palette size) entries
\* in non-decreasing order of distance, and no entry left out is strictly
\* closer to the query than a returned one.
C16_NearestInOrder ==
    fn = "find_multiple_matches" =>
       /\ Len(out) = Min(count, Len(colors))
       /\ \A i \in 1..(Len(out) - 1) : out[i].distance <= out[i + 1].distance
       /\ \E row \in [1..Len(out) -> 1..Len(colors)] :
             /\ \A i, j \in 1..Len(out) : row[i] = row[j] => i = j
             /\ \A i \in 1..Len(out) :
                   /\ out[i].name = color_names[row[i]]
                   /\ out[i].hex = color_hex[row[i]]
                   /\ out[i].rgb = colors[row[i]]
                   /\ out[i].distance = Dist2(colors[row[i]], rgb)
             /\ \A j \in 1..Len(colors) :
                   (\A i \in 1..Len(out) : row[i] # j) =>
                      \A i \in 1..Len(out) : Dist2(colors[j], rgb) >= out[i].distance

C16_Witness ==
    /\ fn = "find_multiple_matches"
    /\ count = 3
    /\ Len(colors) = 2
    /\ Len(out) = 2
    /\ out[1].distance < out[2].distance

\* two strings are equal up to the case of their letters
EqualIgnoringCase(s1, s2) ==
    /\ Len(s1) = Len(s2)
    /\ \A i \in 1..Len(s1) :
          \/ s1[i] = s2[i]
          \/ \E j \in 1..26 : {s1[i], s2[i]} = {Letters[j], Capitals[j]}

\* C17: search_by_name returns the first palette entry whose name equals the
\* given name ignoring letter case, and None when no name matches; a name that
\* only contains the given one does not match.
C17_FirstExactMatch ==
    fn = "search_by_name" =>
       LET hits == {i \in 1..Len(color_names) : EqualIgnoringCase(color_names[i], name)}
       IN  /\ hits = {} => out = None
           /\ \A i \in hits :
                 (\A j \in hits : i <= j) =>
                    out = Some([name |-> color_names[i], hex |-> color_hex[i],
                                rgb |-> colors[i]])

C17_Witness ==
    /\ fn = "search_by_name"
    /\ name = <<"R", "E", "D">>
    /\ color_names = <<<<"R", "e", "d">>, <<"R", "E", "D">>>>
    /\ out = Some(EntryRed)

\* the entries of the database in load order
Loaded == IF colors_file.kind = "missing" THEN Fallback ELSE colors_file.data.colors

Inside(x, y) ==
    /\ current_image # NoImage
    /\ 0 <= x /\ x < Width(current_image)
    /\ 0 <= y /\ y < Height(current_image)

\* C19: get_color_at_point(x, y) returns the pixel at row y, column x of the
\* loaded image when 0 <= x < w and 0 <= y < h, and None for every other (x, y),
\* negative coordinates included, and when no image is loaded; it never raises.
C19_PointBoundsChecked ==
    fn = "get_color_at_point" =>
        IF Inside(point[1], point[2])
        THEN out = Some(current_image[point[2] + 1][point[1] + 1])
        ELSE out = None

C19_Witness ==
    /\ fn = "get_color_at_point"
    /\ current_image = Image("gradient", 2, 3)
    /\ point = <<-1, 1>>
    /\ out = None

RECURSIVE SumOver(_, _, _)
\* the sum of channel c over the pixels at the 0-based (row, column) pairs of `cells`
SumOver(image, cells, c) ==
    IF cells = {}
    THEN 0
    ELSE LET cell == CHOOSE cell \in cells : TRUE
         IN  image[cell[1] + 1][cell[2] + 1][c] + SumOver(image, cells \ {cell}, c)

\* the pixels of the box of radius r around (x, y), clamped to the image
ClampedBox(x, y, r) ==
    {cell \in (0..(Height(current_image) - 1)) \X (0..(Width(current_image) - 1)) :
        /\ Max(0, y - r) <= cell[1] /\ cell[1] <= Min(Height(current_image) - 1, y + r)
        /\ Max(0, x - r) <= cell[2] /\ cell[2] <= Min(Width(current_image) - 1, x + r)}

C21_EmptyBoxGivesNone ==
    (/\ fn = "get_average_color_in_region"
     /\ current_image # NoImage
     /\ radius >= 0
     /\ ClampedBox(point[1], point[2], radius) = {}) => out = None

\* C28: a load_image or load_from_array call that returns False leaves
\* current_image and original_image as they were before the call, so the two
\* fields are both None or both stem from the same successfully loaded image.
C28_FailedLoadChangesNothing ==
    /\ [][(fn' \in {"load_image", "load_from_array"} /\ out' = FALSE)
            => UNCHANGED <<current_image, original_image>>]_vars
    /\ []((current_image = NoImage) <=> (original_image = NoImage))

\* C22: two extractions from the same pixel buffer with the same n_colors and
\* the same sample_size return identical results, whether or not the pixels
\* are subsampled.
C22_RepeatedExtractionIdentical ==
    [][(/\ fn = "extract_dominant_colors"
        /\ fn' = "extract_dominant_colors"
        /\ n_colors' = n_colors
        /\ sample_size' = sample_size) => out' = out]_vars

\* the entry of cluster i of the fitted estimator
ClusterEntry(i) ==
    LET cnt == Cardinality({j \in 1..Len(kmeans.labels_) : kmeans.labels_[j] = i})
    IN  [rgb |-> [c \in 1..3 |-> kmeans.cluster_centers_[i].sum[c]
                                 \div kmeans.cluster_centers_[i].n],
         percentage |-> RoundedPercentage(cnt, Len(kmeans.labels_)),
         count |-> cnt]

\* C23: extract_dominant_colors returns one entry per cluster, n_colors in all,
\* each with the cluster's centroid truncated, the number of sampled pixels of
\* the cluster and its percentage of the S sampled pixels, S being all pixels
\* when they are at most sample_size and sample_size otherwise; also when a
\* cluster receives no pixels.
C23_OneEntryPerCluster ==
    (fn = "extract_dominant_colors" /\ kmeans.fitted) =>
        LET pixels == Height(current_image) * Width(current_image)
        IN  /\ Len(kmeans.labels_) = IF pixels <= sample_size THEN pixels ELSE sample_size
            /\ Len(out) = n_colors
            /\ \E cluster \in [1..n_colors -> 0..(n_colors - 1)] :
                  /\ \A p, q \in 1..n_colors : p # q => cluster[p] # cluster[q]
                  /\ \A p \in 1..n_colors : out[p] = ClusterEntry(cluster[p])

RECURSIVE SumPercentages(_)
SumPercentages(results) ==
    IF results = <<>>
    THEN 0
    ELSE results[1].percentage + SumPercentages(SubSeq(results, 2, Len(results)))

\* C24: the percentages of the entries returned for n_colors = K sum to 100.0
\* within K x 0.05 (in tenths of a percent: twice the deviation from 1000 is at
\* most K).
C24_PercentagesSumTo100 ==
    (fn = "extract_dominant_colors" /\ kmeans.fitted) =>
        2 * Abs(SumPercentages(out) - 1000) <= n_colors

C24_Witness ==
    /\ fn = "extract_dominant_colors"
    /\ kmeans.fitted
    /\ n_colors = 3
    /\ Len(out) = 3
    /\ SumPercentages(out) = 999

\* C25: the returned sequence is ordered by percentage descending, and entries
\* of equal rounded percentage keep the ascending order of their cluster index.
C25_DescendingStable ==
    (fn = "extract_dominant_colors" /\ kmeans.fitted) =>
        \E index \in [1..Len(out) -> 1..Len(out)] :
            /\ \A p \in 1..Len(out) : out[p] = Results(kmeans)[index[p]]
            /\ \A p, q \in 1..Len(out) :
                  p < q => \/ out[p].percentage > out[q].percentage
                           \/ /\ out[p].percentage = out[q].percentage
                              /\ index[p] < index[q]

C25_Witness ==
    /\ fn = "extract_dominant_colors"
    /\ kmeans.fitted
    /\ Len(out) = 3
    /\ out[1].percentage = 500 /\ out[2].percentage = 250 /\ out[3].percentage = 250
    /\ Results(kmeans)[2] = out[1]
    /\ out[2].rgb # out[3].rgb

\* C26: extract_dominant_colors returns an empty sequence when no image is
\* loaded, and for a loaded image with at least one pixel and n_colors >= 1 it
\* returns a sequence and raises nothing.
C26_ExtractNeverRaises ==
    fn = "extract_dominant_colors" =>
        /\ kmeans.raised = "none"
        /\ current_image = NoImage => out = <<>>

\* C27: under any interleaving of concurrent callers get_color_matcher
\* constructs the ColorMatcher at most once, and every caller receives the
\* same instance.
C27_ConstructedOnce ==
    /\ constructed <= 1
    /\ \A t, u \in Threads :
          (pc[t] = "idle" /\ pc[u] = "idle" /\ got[t] # 0 /\ got[u] # 0) => got[t] = got[u]

\* C29: across any sequence of Camera toggle, Take Snapshot and Upload Image
\* events and timer firings at most one _update_camera_frame callback is
\* pending; a callback of a stopped camera session never carries on the
\* refresh loop of a later session, and none reschedules itself while
\* camera_running is False.
C29_OneCallbackPending ==
    /\ [](Len(pending) <= 1)
    /\ [][(fn' \in {"_toggle_camera", "_update_camera_frame"} /\ out' # <<>>)
            => (camera_running' /\ out' = <<session'>>)]_vars

\* the hex values of a history
HexOf(history) == {history[i].hex : i \in 1..Len(history)}

\* C30: from a saved history of at most max_history entries with distinct
\* hex values, after any sequence of colour selections color_history holds at
\* most max_history entries, no two of the same hex, with the colour selected
\* last at index 0; selecting a colour the history holds moves its entry to the
\* front and leaves the length and the order of the others as they were.
C30_HistoryBoundedDistinct ==
    /\ [](/\ Len(color_history) <= max_history
          /\ \A i, j \in 1..Len(color_history) :
                color_history[i].hex = color_history[j].hex => i = j)
    /\ [][\A c \in (IF fn' \in {"_update_color_display", "_on_canvas_click"} THEN out' ELSE {}) :
            LET hex == rgb_to_hex(c[1], c[2], c[3])
            IN  /\ color_history' # <<>>
                /\ color_history'[1].rgb = c
                /\ color_history'[1].hex = hex
                /\ hex \in HexOf(color_history) =>
                      /\ Len(color_history') = Len(color_history)
                      /\ Tail(color_history') =
                            SelectSeq(color_history, LAMBDA e : e.hex # hex)]_vars

\* a full history took a new colour and dropped its last entry, then the
\* seventh saved colour was selected again and moved to the front
C30_Witness ==
    /\ fn = "_update_color_display"
    /\ out = Some(SavedColor(7))
    /\ Len(color_history) = max_history
    /\ color_history[1].rgb = SavedColor(7)
    /\ color_history[2].rgb = <<255, 0, 0>>
    /\ color_history[max_history].rgb = SavedColor(max_history - 1)

====
